---- MODULE Spec2Model ----
(***************************************************************************)
(* Financial ratio and red-flag engine of LangChainHandler                 *)
(* (langchain_integration.py, financial_tools.py).                         *)
(*                                                                         *)
(* A statement record is extracted, calculate_financial_ratios is run on   *)
(* it and detect_financial_red_flags is run on the record and the ratios,  *)
(* as analyze_financial_document and /generate_report do.                  *)
(*                                                                         *)
(* Numbers are exact rationals [t |-> "num", n, d] with d > 0 and          *)
(* gcd(n, d) = 1; on the small integers of the model Python's float        *)
(* division and comparisons agree with them.                               *)
(*                                                                         *)
(* The second part is the column scan of /detect_anomalies (backend.py):   *)
(* an uploaded CSV is parsed into a data frame and every numeric column is *)
(* scanned for cells that deviate from the column mean.                    *)
(***************************************************************************)
EXTENDS Integers, Sequences, FiniteSets, TLC

VARIABLES pc, sections, data, ratios, flags, report_data,
          scan, financial_data, sensitivity, response,
          content, temp_file, http,
          chat_sessions, session_history, session_documents,
          upload, saved_file, reply,
          callers, model_file, scaler_file, ncalls, model_saves,
          scaler_dumps, last

vars == <<pc, sections, data, ratios, flags, report_data,
          scan, financial_data, sensitivity, response,
          content, temp_file, http,
          chat_sessions, session_history, session_documents,
          upload, saved_file, reply,
          callers, model_file, scaler_file, ncalls, model_saves,
          scaler_dumps, last>>

pipelineVars == <<pc, sections, data, ratios, flags, report_data>>

scanVars == <<scan, financial_data, sensitivity, response,
              content, temp_file, http>>

sessionVars == <<chat_sessions, session_history, session_documents,
                 upload, saved_file, reply>>

artifactVars == <<callers, model_file, scaler_file, ncalls, model_saves,
                  scaler_dumps, last>>

\* what the requests of the analysis pipeline leave alone, what the
\* requests of /detect_anomalies leave alone, what the requests of /chat
\* and /upload_document leave alone, and what the calls of
\* detect_anomalies_in_data leave alone
nonPipelineVars == <<scanVars, sessionVars, artifactVars>>

nonScanVars == <<pipelineVars, sessionVars, artifactVars>>

nonSessionVars == <<pipelineVars, scanVars, artifactVars>>

nonArtifactVars == <<pipelineVars, scanVars, sessionVars>>

----------------------------------------------------------------------------
(* Bounds of the explored inputs *)

MaxSupplied == 1
MaxNeg == 2
MaxNum == 2
StmtLow == 1
StmtHigh == 3
MaxRows == 3
MaxCell == 2
SensNeg == 1
SensMax == 2

\* sessions, user/assistant pairs of one history, stored documents of one
\* session
MaxSessions == 2

MaxPairs == 2

MaxDocs == 1

\* rows of a frame, levels of a reconstruction error, threshold
\* multipliers and calls of detect_anomalies_in_data
MaxDataRows == 3

MaxErr == 1

MaxMultiplier == 1

MaxCalls == 3

----------------------------------------------------------------------------
(* Values: JSON values of a statement field and results of the arithmetic *)

RECURSIVE GCD(_, _)
GCD(a, b) == IF b = 0 THEN a ELSE GCD(b, a % b)

Abs(x) == IF x < 0 THEN 0 - x ELSE x

Rat(n, d) ==
    LET s == IF d < 0 THEN 0 - 1 ELSE 1
        g == GCD(Abs(n), Abs(d))
    IN  [t |-> "num", n |-> (s * n) \div g, d |-> (s * d) \div g]

Num(i) == [t |-> "num", n |-> i, d |-> 1]

Absent == [t |-> "absent", n |-> 0, d |-> 1]
Null == [t |-> "null", n |-> 0, d |-> 1]
Str == [t |-> "str", n |-> 0, d |-> 1]
NA == [t |-> "N/A", n |-> 0, d |-> 1]
Inf == [t |-> "inf", n |-> 0, d |-> 1]
Raise == [t |-> "raise", n |-> 0, d |-> 1]

IsNum(v) == v.t = "num"

\* Python's x == 0: true only of a number that is zero
IsZero(v) == IsNum(v) /\ v.n = 0

\* Python's truth value: None and 0 are false, a non-empty string is true
Truthy(v) == (IsNum(v) /\ v.n # 0) \/ v.t = "str"

\* isinstance(v, (int, float)): infinity is a float
IsNumber(v) == v.t \in {"num", "inf"}

Less(a, b) == a.n * b.d < b.n * a.d

\* x / y: TypeError unless both are numbers
Div(a, b) ==
    IF IsNum(a) /\ IsNum(b) /\ b.n # 0 THEN Rat(a.n * b.d, a.d * b.n) ELSE Raise

Sub(a, b) ==
    IF IsNum(a) /\ IsNum(b) THEN Rat(a.n * b.d - b.n * a.d, a.d * b.d) ELSE Raise

Times(a, k) == IF IsNum(a) THEN Rat(a.n * k, a.d) ELSE a

\* x > y and x < y: "raise" on a TypeError, else "true" or "false";
\* two strings compare without error (the one string of the model is equal
\* to itself), infinity is above every number
Gt(a, b) ==
    IF IsNum(a) /\ IsNum(b) THEN (IF Less(b, a) THEN "true" ELSE "false")
    ELSE IF a.t = "inf" /\ IsNum(b) THEN "true"
    ELSE IF IsNum(a) /\ b.t = "inf" THEN "false"
    ELSE IF a.t = "str" /\ b.t = "str" THEN "false"
    ELSE "raise"

Lt(a, b) == Gt(b, a)

----------------------------------------------------------------------------
(* The statement record *)

IncomeFields == {"net_sales", "cost_of_goods_sold", "gross_profit",
                 "operating_income", "interest_expenses", "net_income",
                 "previous_year_sales", "previous_year_net_income"}

BalanceFields == {"cash_and_equivalents", "current_assets", "total_assets",
                  "current_liabilities", "total_liabilities",
                  "shareholders_equity", "average_inventory",
                  "average_accounts_receivable", "previous_year_total_assets"}

CashFlowFields == {"operating_cash_flow", "free_cash_flow"}

Fields == IncomeFields \cup BalanceFields \cup CashFlowFields

Sections == {"income_statement", "balance_sheet", "cash_flow"}

SectionFields(s) ==
    IF s = "income_statement" THEN IncomeFields
    ELSE IF s = "balance_sheet" THEN BalanceFields
    ELSE CashFlowFields

SectionOf(f) == CHOOSE s \in Sections : f \in SectionFields(s)

EmptyRecord == [f \in Fields |-> Absent]

\* data.get(section, {}).get(field, 0): a missing key reads as 0, a null
\* or a string is handed on as it is
GetOrZero(sec, d, f) ==
    IF SectionOf(f) \notin sec \/ d[f].t = "absent" THEN Num(0) ELSE d[f]

\* data.get(section, {}).get(field): a missing key reads as None
GetOrNone(sec, d, f) ==
    IF SectionOf(f) \notin sec \/ d[f].t = "absent" THEN Null ELSE d[f]

----------------------------------------------------------------------------
(* financial_tools.py *)

calculate_current_ratio(current_assets, current_liabilities) ==
    IF IsZero(current_liabilities) THEN Inf
    ELSE Div(current_assets, current_liabilities)

calculate_debt_to_equity_ratio(total_liabilities, shareholders_equity) ==
    IF IsZero(shareholders_equity) THEN Inf
    ELSE Div(total_liabilities, shareholders_equity)

calculate_gross_margin_ratio(gross_profit, net_sales) ==
    IF IsZero(net_sales) THEN Num(0) ELSE Div(gross_profit, net_sales)

calculate_operating_margin_ratio(operating_income, net_sales) ==
    IF IsZero(net_sales) THEN Num(0) ELSE Div(operating_income, net_sales)

calculate_return_on_assets_ratio(net_income, total_assets) ==
    IF IsZero(total_assets) THEN Num(0) ELSE Div(net_income, total_assets)

calculate_return_on_equity_ratio(net_income, shareholders_equity) ==
    IF IsZero(shareholders_equity) THEN Num(0)
    ELSE Div(net_income, shareholders_equity)

calculate_asset_turnover_ratio(net_sales, average_total_assets) ==
    IF IsZero(average_total_assets) THEN Num(0)
    ELSE Div(net_sales, average_total_assets)

calculate_inventory_turnover_ratio(cost_of_goods_sold, average_inventory) ==
    IF IsZero(average_inventory) THEN Num(0)
    ELSE Div(cost_of_goods_sold, average_inventory)

calculate_receivables_turnover_ratio(net_credit_sales, average_accounts_receivable) ==
    IF IsZero(average_accounts_receivable) THEN Num(0)
    ELSE Div(net_credit_sales, average_accounts_receivable)

\* mutant of calculate_debt_ratio: the operands exchanged
calculate_debt_ratio_Inverted(total_liabilities, total_assets) ==
    IF IsZero(total_assets) THEN Num(0) ELSE Div(total_assets, total_liabilities)

calculate_debt_ratio(total_liabilities, total_assets) ==
    IF IsZero(total_assets) THEN Num(0) ELSE Div(total_liabilities, total_assets)

calculate_interest_coverage_ratio(operating_income, interest_expenses) ==
    IF IsZero(interest_expenses) THEN Inf
    ELSE Div(operating_income, interest_expenses)

\* lambda cash, liab: cash / liab if liab != 0 else "N/A"
cash_ratio_lambda(cash, liab) ==
    IF IsZero(liab) THEN NA ELSE Div(cash, liab)

\* lambda x, y: x / y  (ZeroDivisionError is an Exception like TypeError)
cash_to_income_lambda(x, y) == Div(x, y)

----------------------------------------------------------------------------
(* LangChainHandler.calculate_financial_ratios *)

\* func(numerator, denominator) for the function objects handed to
\* safe_calculate, named by their source names
Call(func, numerator, denominator) ==
    CASE func = "calculate_current_ratio" ->
           calculate_current_ratio(numerator, denominator)
      [] func = "cash_ratio_lambda" ->
           cash_ratio_lambda(numerator, denominator)
      [] func = "calculate_debt_to_equity_ratio" ->
           calculate_debt_to_equity_ratio(numerator, denominator)
      [] func = "calculate_gross_margin_ratio" ->
           calculate_gross_margin_ratio(numerator, denominator)
      [] func = "calculate_operating_margin_ratio" ->
           calculate_operating_margin_ratio(numerator, denominator)
      [] func = "calculate_return_on_assets_ratio" ->
           calculate_return_on_assets_ratio(numerator, denominator)
      [] func = "calculate_return_on_equity_ratio" ->
           calculate_return_on_equity_ratio(numerator, denominator)
      [] func = "calculate_asset_turnover_ratio" ->
           calculate_asset_turnover_ratio(numerator, denominator)
      [] func = "calculate_inventory_turnover_ratio" ->
           calculate_inventory_turnover_ratio(numerator, denominator)
      [] func = "calculate_receivables_turnover_ratio" ->
           calculate_receivables_turnover_ratio(numerator, denominator)
      [] func = "calculate_debt_ratio" ->
           calculate_debt_ratio(numerator, denominator)
      [] func = "calculate_interest_coverage_ratio" ->
           calculate_interest_coverage_ratio(numerator, denominator)
      [] func = "cash_to_income_lambda" ->
           cash_to_income_lambda(numerator, denominator)

\* mutant of safe_calculate: without the zero-denominator test
safe_calculate_Unguarded(func, numerator, denominator, default) ==
    LET r == Call(func, numerator, denominator)
    IN  IF r.t = "raise" THEN default ELSE r

\* zero denominator: the default; an exception inside func: the default
safe_calculate(func, numerator, denominator, default) ==
    IF IsZero(denominator) THEN default
    ELSE LET r == Call(func, numerator, denominator)
         IN  IF r.t = "raise" THEN default ELSE r

Entry(numerator, denominator, value) ==
    [numerator |-> numerator, denominator |-> denominator, ratio_value |-> value]

StandardNames == {"Current Ratio", "Cash Ratio", "Debt to Equity Ratio",
                  "Gross Margin Ratio", "Operating Margin Ratio",
                  "Return on Assets Ratio", "Return on Equity Ratio",
                  "Asset Turnover Ratio", "Inventory Turnover Ratio",
                  "Receivables Turnover Ratio", "Debt Ratio",
                  "Interest Coverage Ratio"}

\* the ratios dictionary of lines 145-209; each entry records its two
\* operands (named as in the source) and ratio_value
StandardRatios(sec, d) ==
    LET net_sales == GetOrZero(sec, d, "net_sales")
        cost_of_goods_sold == GetOrZero(sec, d, "cost_of_goods_sold")
        gross_profit == GetOrZero(sec, d, "gross_profit")
        operating_income == GetOrZero(sec, d, "operating_income")
        interest_expenses == GetOrZero(sec, d, "interest_expenses")
        net_income == GetOrZero(sec, d, "net_income")
        cash_and_equivalents == GetOrZero(sec, d, "cash_and_equivalents")
        current_assets == GetOrZero(sec, d, "current_assets")
        total_assets == GetOrZero(sec, d, "total_assets")
        current_liabilities == GetOrZero(sec, d, "current_liabilities")
        total_liabilities == GetOrZero(sec, d, "total_liabilities")
        shareholders_equity == GetOrZero(sec, d, "shareholders_equity")
        average_inventory == GetOrZero(sec, d, "average_inventory")
        average_accounts_receivable == GetOrZero(sec, d, "average_accounts_receivable")
        net_credit_sales == net_sales
        average_total_assets == total_assets
    IN
    [name \in StandardNames |->
        CASE name = "Current Ratio" ->
               Entry(current_assets, current_liabilities,
                     safe_calculate("calculate_current_ratio", current_assets, current_liabilities, NA))
          [] name = "Cash Ratio" ->
               Entry(cash_and_equivalents, current_liabilities,
                     safe_calculate("cash_ratio_lambda", cash_and_equivalents, current_liabilities, NA))
          [] name = "Debt to Equity Ratio" ->
               Entry(total_liabilities, shareholders_equity,
                     safe_calculate("calculate_debt_to_equity_ratio", total_liabilities, shareholders_equity, NA))
          [] name = "Gross Margin Ratio" ->
               Entry(gross_profit, net_sales,
                     safe_calculate("calculate_gross_margin_ratio", gross_profit, net_sales, NA))
          [] name = "Operating Margin Ratio" ->
               Entry(operating_income, net_sales,
                     safe_calculate("calculate_operating_margin_ratio", operating_income, net_sales, NA))
          [] name = "Return on Assets Ratio" ->
               Entry(net_income, total_assets,
                     safe_calculate("calculate_return_on_assets_ratio", net_income, total_assets, NA))
          [] name = "Return on Equity Ratio" ->
               Entry(net_income, shareholders_equity,
                     safe_calculate("calculate_return_on_equity_ratio", net_income, shareholders_equity, NA))
          [] name = "Asset Turnover Ratio" ->
               Entry(net_sales, average_total_assets,
                     safe_calculate("calculate_asset_turnover_ratio", net_sales, average_total_assets, NA))
          [] name = "Inventory Turnover Ratio" ->
               Entry(cost_of_goods_sold, average_inventory,
                     safe_calculate("calculate_inventory_turnover_ratio", cost_of_goods_sold, average_inventory, NA))
          [] name = "Receivables Turnover Ratio" ->
               Entry(net_credit_sales, average_accounts_receivable,
                     safe_calculate("calculate_receivables_turnover_ratio", net_credit_sales, average_accounts_receivable, NA))
          [] name = "Debt Ratio" ->
               Entry(total_liabilities, total_assets,
                     safe_calculate("calculate_debt_ratio", total_liabilities, total_assets, NA))
          [] name = "Interest Coverage Ratio" ->
               Entry(operating_income, interest_expenses,
                     safe_calculate("calculate_interest_coverage_ratio", operating_income, interest_expenses, NA))]

\* (current - previous) / previous * 100 if previous != 0 else "N/A";
\* "raise" when the arithmetic meets a string
GrowthPercentage(current, previous) ==
    IF IsZero(previous) THEN NA
    ELSE Times(Div(Sub(current, previous), previous), 100)

GrowthEntry(current, previous) ==
    [current |-> current, previous |-> previous,
     growth_percentage |-> GrowthPercentage(current, previous)]

\* lines 211-234: the three growth metrics; the entry is added under
\* "if previous and current"
GrowthOperands(sec, d) ==
    [name \in {"Sales Growth", "Profit Growth", "Asset Growth"} |->
        CASE name = "Sales Growth" ->
               <<GetOrZero(sec, d, "net_sales"), GetOrZero(sec, d, "previous_year_sales")>>
          [] name = "Profit Growth" ->
               <<GetOrZero(sec, d, "net_income"), GetOrZero(sec, d, "previous_year_net_income")>>
          [] name = "Asset Growth" ->
               <<GetOrZero(sec, d, "total_assets"), GetOrZero(sec, d, "previous_year_total_assets")>>]

GrowthGuard(current, previous) == Truthy(previous) /\ Truthy(current)

GrowthMetrics(sec, d) ==
    LET ops == GrowthOperands(sec, d)
        present == {name \in DOMAIN ops : GrowthGuard(ops[name][1], ops[name][2])}
    IN  [name \in present |-> GrowthEntry(ops[name][1], ops[name][2])]

\* lines 236-243: added under "if operating_cash_flow and net_income"
CashFlowRatio(sec, d) ==
    LET operating_cash_flow == GetOrZero(sec, d, "operating_cash_flow")
        net_income == GetOrZero(sec, d, "net_income")
    IN  IF Truthy(operating_cash_flow) /\ Truthy(net_income)
        THEN [name \in {"Cash Flow to Net Income Ratio"} |->
                Entry(operating_cash_flow, net_income,
                      safe_calculate("cash_to_income_lambda", operating_cash_flow, net_income, NA))]
        ELSE [name \in {} |-> NA]

\* lines 245-248: added under "if free_cash_flow is not None", where
\* free_cash_flow is cash_flow.get('free_cash_flow', 0)
FreeCashFlow(sec, d) ==
    LET free_cash_flow == GetOrZero(sec, d, "free_cash_flow")
    IN  IF free_cash_flow.t # "null"
        THEN [name \in {"Free Cash Flow"} |-> [value |-> free_cash_flow]]
        ELSE [name \in {} |-> NA]

Half == Rat(1, 2)
SevenTenths == Rat(7, 10)
FourFifths == Rat(4, 5)
One == Num(1)
Two == Num(2)

Anomaly(type, severity) == [type |-> type, severity |-> severity]

\* lines 253-259
IncomeAnomaly(sec, d) ==
    LET net_income == GetOrZero(sec, d, "net_income")
        operating_income == GetOrZero(sec, d, "operating_income")
        interest_expenses == GetOrZero(sec, d, "interest_expenses")
        c1 == Gt(net_income, operating_income)
        c2 == Gt(interest_expenses, Num(0))
    IN  IF c1 = "raise" THEN [raised |-> TRUE, found |-> <<>>]
        ELSE IF c1 = "false" THEN [raised |-> FALSE, found |-> <<>>]
        ELSE IF c2 = "raise" THEN [raised |-> TRUE, found |-> <<>>]
        ELSE IF c2 = "true"
             THEN [raised |-> FALSE, found |-> <<Anomaly("Income Anomaly", "Medium")>>]
        ELSE [raised |-> FALSE, found |-> <<>>]

\* lines 261-267
LiquidityRisk(std) ==
    LET v == std["Current Ratio"].ratio_value
    IN  IF IsNumber(v) /\ Lt(v, One) = "true"
        THEN <<Anomaly("Liquidity Risk",
                       IF Lt(v, FourFifths) = "true" THEN "High" ELSE "Medium")>>
        ELSE <<>>

\* lines 269-275
HighLeverage(std) ==
    LET v == std["Debt Ratio"].ratio_value
    IN  IF IsNumber(v) /\ Gt(v, SevenTenths) = "true"
        THEN <<Anomaly("High Leverage",
                       IF Gt(v, FourFifths) = "true" THEN "High" ELSE "Medium")>>
        ELSE <<>>

\* mutant of CashFlowDiscrepancy: the Medium branch without the test
\* net_income > 0
CashFlowDiscrepancy_AnySign(sec, d) ==
    LET operating_cash_flow == GetOrZero(sec, d, "operating_cash_flow")
        net_income == GetOrZero(sec, d, "net_income")
        neg == Lt(operating_cash_flow, Num(0))
        pos == Gt(net_income, Num(0))
        q == Div(operating_cash_flow, net_income)
        low == IF q.t = "raise" THEN "raise" ELSE Lt(q, Half)
    IN  IF ~(Truthy(operating_cash_flow) /\ Truthy(net_income))
        THEN [raised |-> FALSE, found |-> <<>>]
        ELSE IF neg = "raise" \/ (neg = "true" /\ pos = "raise")
        THEN [raised |-> TRUE, found |-> <<>>]
        ELSE IF neg = "true" /\ pos = "true"
        THEN [raised |-> FALSE, found |-> <<Anomaly("Cash Flow Discrepancy", "High")>>]
        ELSE IF low = "raise"
        THEN [raised |-> TRUE, found |-> <<>>]
        ELSE IF low = "true"
        THEN [raised |-> FALSE, found |-> <<Anomaly("Cash Flow Discrepancy", "Medium")>>]
        ELSE [raised |-> FALSE, found |-> <<>>]

\* lines 277-290
CashFlowDiscrepancy(sec, d) ==
    LET operating_cash_flow == GetOrZero(sec, d, "operating_cash_flow")
        net_income == GetOrZero(sec, d, "net_income")
        neg == Lt(operating_cash_flow, Num(0))
        pos == Gt(net_income, Num(0))
        q == Div(operating_cash_flow, net_income)
        low == IF q.t = "raise" THEN "raise" ELSE Lt(q, Half)
    IN  IF ~(Truthy(operating_cash_flow) /\ Truthy(net_income))
        THEN [raised |-> FALSE, found |-> <<>>]
        ELSE IF neg = "raise" \/ (neg = "true" /\ pos = "raise")
        THEN [raised |-> TRUE, found |-> <<>>]
        ELSE IF neg = "true" /\ pos = "true"
        THEN [raised |-> FALSE, found |-> <<Anomaly("Cash Flow Discrepancy", "High")>>]
        ELSE IF low = "raise" \/ (low = "true" /\ pos = "raise")
        THEN [raised |-> TRUE, found |-> <<>>]
        ELSE IF low = "true" /\ pos = "true"
        THEN [raised |-> FALSE, found |-> <<Anomaly("Cash Flow Discrepancy", "Medium")>>]
        ELSE [raised |-> FALSE, found |-> <<>>]

\* the whole of calculate_financial_ratios: raised, or the returned
\* dictionary (the named entries and the "Anomalies" list)
calculate_financial_ratios(sec, d) ==
    LET std == StandardRatios(sec, d)
        growth == GrowthMetrics(sec, d)
        growthRaised == \E name \in DOMAIN growth :
                            growth[name].growth_percentage.t = "raise"
        income == IncomeAnomaly(sec, d)
        cash == CashFlowDiscrepancy(sec, d)
        anomalies == income.found \o LiquidityRisk(std) \o HighLeverage(std)
                     \o cash.found
    IN  IF growthRaised \/ income.raised \/ cash.raised
        THEN [raised |-> TRUE, entries |-> [name \in {} |-> NA], Anomalies |-> <<>>]
        ELSE [raised |-> FALSE,
              entries |-> std @@ growth @@ CashFlowRatio(sec, d) @@ FreeCashFlow(sec, d),
              Anomalies |-> anomalies]

----------------------------------------------------------------------------
(* LangChainHandler.detect_financial_red_flags *)

RedFlag(category, issue, severity) ==
    [category |-> category, issue |-> issue, severity |-> severity]

\* mutant of RevenueFlag: the base tested with != 0 as in the Sales Growth
\* metric, instead of > 0
RevenueFlag_NonzeroBase(sec, d) ==
    LET net_sales == GetOrNone(sec, d, "net_sales")
        previous_year_sales == GetOrNone(sec, d, "previous_year_sales")
        growth_rate == IF ~IsZero(previous_year_sales)
                       THEN Div(Sub(net_sales, previous_year_sales), previous_year_sales)
                       ELSE Num(0)
    IN  IF ~(Truthy(previous_year_sales) /\ Truthy(net_sales))
        THEN [raised |-> FALSE, found |-> <<>>]
        ELSE IF growth_rate.t = "raise"
        THEN [raised |-> TRUE, found |-> <<>>]
        ELSE IF Gt(growth_rate, Half) = "true"
        THEN [raised |-> FALSE,
              found |-> <<RedFlag("Revenue", "Unusually high revenue growth", "Medium")>>]
        ELSE [raised |-> FALSE, found |-> <<>>]

\* lines 315-325
RevenueFlag(sec, d) ==
    LET net_sales == GetOrNone(sec, d, "net_sales")
        previous_year_sales == GetOrNone(sec, d, "previous_year_sales")
        positive == Gt(previous_year_sales, Num(0))
        growth_rate == IF positive = "true"
                       THEN Div(Sub(net_sales, previous_year_sales), previous_year_sales)
                       ELSE Num(0)
    IN  IF ~(Truthy(previous_year_sales) /\ Truthy(net_sales))
        THEN [raised |-> FALSE, found |-> <<>>]
        ELSE IF positive = "raise" \/ growth_rate.t = "raise"
        THEN [raised |-> TRUE, found |-> <<>>]
        ELSE IF Gt(growth_rate, Half) = "true"
        THEN [raised |-> FALSE,
              found |-> <<RedFlag("Revenue", "Unusually high revenue growth", "Medium")>>]
        ELSE [raised |-> FALSE, found |-> <<>>]

\* mutant of CashFlowFlag: the comparison without the truthiness guard
CashFlowFlag_Unguarded(sec, d) ==
    LET net_income == GetOrNone(sec, d, "net_income")
        operating_cash_flow == GetOrNone(sec, d, "operating_cash_flow")
        exceeds == Gt(net_income, Times(operating_cash_flow, 2))
    IN  IF exceeds = "raise"
        THEN [raised |-> TRUE, found |-> <<>>]
        ELSE IF exceeds = "true"
        THEN [raised |-> FALSE,
              found |-> <<RedFlag("Cash Flow",
                                  "Net income significantly exceeds operating cash flow",
                                  "High")>>]
        ELSE [raised |-> FALSE, found |-> <<>>]

\* lines 327-335: net_income and operating_cash_flow and
\* net_income > operating_cash_flow * 2; "abc" * 2 is a string
CashFlowFlag(sec, d) ==
    LET net_income == GetOrNone(sec, d, "net_income")
        operating_cash_flow == GetOrNone(sec, d, "operating_cash_flow")
        exceeds == Gt(net_income, Times(operating_cash_flow, 2))
    IN  IF ~(Truthy(net_income) /\ Truthy(operating_cash_flow))
        THEN [raised |-> FALSE, found |-> <<>>]
        ELSE IF exceeds = "raise"
        THEN [raised |-> TRUE, found |-> <<>>]
        ELSE IF exceeds = "true"
        THEN [raised |-> FALSE,
              found |-> <<RedFlag("Cash Flow",
                                  "Net income significantly exceeds operating cash flow",
                                  "High")>>]
        ELSE [raised |-> FALSE, found |-> <<>>]

\* ratios.get(name, {}).get('ratio_value')
RatioValue(entries, name) ==
    IF name \in DOMAIN entries THEN entries[name].ratio_value ELSE Null

\* mutant of SolvencyFlag: a ratio of exactly 2.0 is flagged
SolvencyFlag_AtMostTwo(entries) ==
    LET interest_coverage == RatioValue(entries, "Interest Coverage Ratio")
    IN  IF IsNumber(interest_coverage) /\ Gt(interest_coverage, Two) = "false"
        THEN <<RedFlag("Solvency", "Low interest coverage ratio",
                       IF Lt(interest_coverage, One) = "true" THEN "High" ELSE "Medium")>>
        ELSE <<>>

\* lines 337-346
SolvencyFlag(entries) ==
    LET interest_coverage == RatioValue(entries, "Interest Coverage Ratio")
    IN  IF IsNumber(interest_coverage) /\ Lt(interest_coverage, Two) = "true"
        THEN <<RedFlag("Solvency", "Low interest coverage ratio",
                       IF Lt(interest_coverage, One) = "true" THEN "High" ELSE "Medium")>>
        ELSE <<>>

\* mutant of LiquidityFlag: a ratio of exactly 0.8 has severity High
LiquidityFlag_HighAtThreshold(entries) ==
    LET current_ratio == RatioValue(entries, "Current Ratio")
    IN  IF IsNumber(current_ratio) /\ Lt(current_ratio, One) = "true"
        THEN <<RedFlag("Liquidity", "Working capital deficiency",
                       IF Gt(current_ratio, FourFifths) = "false" THEN "High" ELSE "Medium")>>
        ELSE <<>>

\* lines 348-357
LiquidityFlag(entries) ==
    LET current_ratio == RatioValue(entries, "Current Ratio")
    IN  IF IsNumber(current_ratio) /\ Lt(current_ratio, One) = "true"
        THEN <<RedFlag("Liquidity", "Working capital deficiency",
                       IF Lt(current_ratio, FourFifths) = "true" THEN "High" ELSE "Medium")>>
        ELSE <<>>

\* mutant of AnyHigh: only the first flag is looked at
AnyHigh_FirstOnly(red_flags) ==
    red_flags # <<>> /\ Head(red_flags).severity = "High"

\* any(flag["severity"] == "High" for flag in red_flags)
RECURSIVE AnyHigh(_)
AnyHigh(red_flags) ==
    IF red_flags = <<>> THEN FALSE
    ELSE IF Head(red_flags).severity = "High" THEN TRUE
    ELSE AnyHigh(Tail(red_flags))

NoFlags == [raised |-> FALSE, red_flags |-> <<>>,
            has_critical_issues |-> FALSE, has_concerns |-> FALSE]

detect_financial_red_flags(sec, d, entries) ==
    LET revenue == RevenueFlag(sec, d)
        cash == CashFlowFlag(sec, d)
        red_flags == revenue.found \o cash.found \o SolvencyFlag(entries)
                     \o LiquidityFlag(entries)
    IN  IF revenue.raised \/ cash.raised
        THEN [NoFlags EXCEPT !.raised = TRUE]
        ELSE [raised |-> FALSE,
              red_flags |-> red_flags,
              has_critical_issues |-> AnyHigh(red_flags),
              has_concerns |-> Len(red_flags) > 0]

----------------------------------------------------------------------------
(* The extracted records that are explored *)

Nums == {Num(i) : i \in (0 - MaxNeg)..MaxNum}

SuppliedValues == {Null, Str} \cup Nums

RECURSIVE SubsetsUpTo(_)
SubsetsUpTo(k) ==
    IF k = 0 THEN {{}}
    ELSE LET P == SubsetsUpTo(k - 1)
         IN  P \cup {s \cup {f} : s \in P, f \in Fields}

\* a record in which the fields of S are supplied with the values g
SparseRecord(S, g) == [f \in Fields |-> IF f \in S THEN g[f] ELSE Absent]

\* the operands of each computation of calculate_financial_ratios and
\* detect_financial_red_flags: the twelve ratios, the growth metrics, the
\* cash-flow metrics and rules, the income anomaly
OperandGroups ==
    {{"current_assets", "current_liabilities"},
     {"cash_and_equivalents", "current_liabilities"},
     {"total_liabilities", "shareholders_equity"},
     {"gross_profit", "net_sales"},
     {"operating_income", "net_sales"},
     {"net_income", "total_assets"},
     {"net_income", "shareholders_equity"},
     {"net_sales", "total_assets"},
     {"cost_of_goods_sold", "average_inventory"},
     {"net_sales", "average_accounts_receivable"},
     {"total_liabilities", "total_assets"},
     {"operating_income", "interest_expenses"},
     {"net_sales", "previous_year_sales"},
     {"net_income", "previous_year_net_income"},
     {"total_assets", "previous_year_total_assets"},
     {"operating_cash_flow", "net_income"},
     {"free_cash_flow"},
     {"net_income", "operating_income", "interest_expenses"}}

\* fields the red-flag and anomaly rules read
RuleFields == {"net_sales", "previous_year_sales", "net_income",
               "operating_income", "interest_expenses", "operating_cash_flow",
               "current_assets", "current_liabilities", "total_liabilities",
               "total_assets"}

\* well-typed statements: every rule field is a positive number
StatementRecords ==
    {[f \in Fields |-> IF f \in RuleFields THEN g[f] ELSE Absent] :
        g \in [RuleFields -> {Num(StmtLow), Num(StmtHigh)}]}

\* worked examples: previous_year_sales = 100 and net_sales = 160;
\* current_assets = 50 and current_liabilities = 100; net_income = 100,
\* operating_income = 80 and interest_expenses = 10; and a Current Ratio of
\* exactly 0.8, the severity threshold of lines 265 and 355
ExampleRecords ==
    {[EmptyRecord EXCEPT !["previous_year_sales"] = Num(100),
                         !["net_sales"] = Num(160)],
     [EmptyRecord EXCEPT !["current_assets"] = Num(50),
                         !["current_liabilities"] = Num(100)],
     [EmptyRecord EXCEPT !["net_income"] = Num(100),
                         !["operating_income"] = Num(80),
                         !["interest_expenses"] = Num(10)],
     [EmptyRecord EXCEPT !["current_assets"] = Num(4),
                         !["current_liabilities"] = Num(5)]}

\* the fields detect_financial_red_flags reads from the record (lines 306-312)
DetectorFields == {"net_sales", "previous_year_sales", "net_income",
                   "operating_cash_flow"}

\* a well-typed statement in which one field the detector reads is null or
\* a missing key
PartialStatement(d, f, v) == [d EXCEPT ![f] = v]

Supplied(d) == {f \in Fields : d[f].t # "absent"}

\* the section keys a record may carry: all three (a section without
\* supplied fields is an empty mapping), or only the sections that hold a
\* supplied field (the others are missing keys)
SectionChoices(d) == {Sections, {SectionOf(f) : f \in Supplied(d)}}

----------------------------------------------------------------------------
(* The analysis pipeline: analyze_financial_document, /generate_report *)

NoRatios == [raised |-> FALSE, entries |-> [name \in {} |-> NA], Anomalies |-> <<>>]

\* the response of /detect_anomalies before a scan has run
NoResponse == [num_anomalies |-> 0, anomalies |-> <<>>]

\* the status line of the response: 200 with the body, or the status and
\* the detail of the HTTPException that left the handler
Reply(status_code, detail) == [status_code |-> status_code, detail |-> detail]

NoReply == Reply(0, "")

\* no /upload_document request is between its await and its resumption
NoUpload == [session_id |-> 0, document |-> ""]

\* the last response of /chat or /upload_document: the handler, its
\* status, the session and the documents of the message_parts it built
ChatReply(handler, status_code, session_id, parts) ==
    [handler |-> handler, status_code |-> status_code,
     session_id |-> session_id, parts |-> parts]

\* anomaly.py: the threads that call detect_anomalies_in_data
Callers == {1, 2}

\* the feature columns of the frame handed to detect_anomalies_in_data
Features == {"Income_Growth", "Expenditure_Growth"}

\* a caller: where it is in detect_anomalies_in_data, the number of its
\* call, its frame (rows and columns), its threshold_multiplier, and the
\* parameters and the scaler it holds in memory (0: none yet, k: the
\* parameters that call k drew, the scaler that call k fitted)
IdleCaller ==
    [pc |-> "idle", call |-> 0, rows |-> 0, columns |-> Features,
     threshold_multiplier |-> 1, model |-> 0, scaler |-> 0]

\* MODEL_PATH or SCALER_PATH: absent; partial while one writer has written
\* a part of it; mixed while two writers write it; complete; corrupt when
\* the bytes of two writers are interleaved. by: the call whose artifact
\* the file holds
File(state, by) == [state |-> state, by |-> by]

NoFile == File("absent", 0)

\* the outcome of the call that ended last
NoCall ==
    [call |-> 0, rows |-> 0, threshold_multiplier |-> 1, model |-> 0,
     scaler |-> 0, status |-> "", anomalies |-> {}]

\* the report payload before /generate_report has built one
NoReport == [key_findings |-> "", red_flags |-> <<>>]

\* no request is being served; sensitivity has its default Form(1.0)
Init ==
    /\ pc = "idle"
    /\ sections = Sections
    /\ data = EmptyRecord
    /\ ratios = NoRatios
    /\ flags = NoFlags
    /\ report_data = NoReport
    /\ scan = "idle"
    /\ financial_data = <<>>
    /\ sensitivity = Num(1)
    /\ response = NoResponse
    /\ content = "none"
    /\ temp_file = "none"
    /\ http = NoReply
    /\ chat_sessions = <<>>
    /\ session_history = <<>>
    /\ session_documents = <<>>
    /\ upload = NoUpload
    /\ saved_file = "none"
    /\ reply = ChatReply("", 0, 0, <<>>)
    /\ callers = [c \in Callers |-> IdleCaller]
    /\ model_file = NoFile
    /\ scaler_file = NoFile
    /\ ncalls = 0
    /\ model_saves = 0
    /\ scaler_dumps = 0
    /\ last = NoCall

Extract(d, sec) ==
    /\ pc' = "extracted"
    /\ data' = d
    /\ sections' = sec
    /\ UNCHANGED <<ratios, flags, report_data>>
    /\ UNCHANGED nonPipelineVars

ExtractSparse ==
    /\ pc = "idle"
    /\ \E S \in SubsetsUpTo(MaxSupplied) : \E g \in [S -> SuppliedValues] :
          \E sec \in SectionChoices(SparseRecord(S, g)) :
             Extract(SparseRecord(S, g), sec)

\* a record that supplies operands of one computation, each with a null,
\* a string or a number
ExtractOperands ==
    /\ pc = "idle"
    /\ \E S \in OperandGroups : \E g \in [S -> SuppliedValues \cup {Absent}] :
          \E sec \in SectionChoices(SparseRecord(S, g)) :
             Extract(SparseRecord(S, g), sec)

ExtractStatement ==
    /\ pc = "idle"
    /\ \E d \in StatementRecords : Extract(d, Sections)

ExtractExample ==
    /\ pc = "idle"
    /\ \E d \in ExampleRecords : Extract(d, Sections)

ExtractPartialStatement ==
    /\ pc = "idle"
    /\ \E d \in StatementRecords : \E f \in DetectorFields :
          \E v \in {Null, Absent} : Extract(PartialStatement(d, f, v), Sections)

CalculateFinancialRatios ==
    /\ pc = "extracted"
    /\ ratios' = calculate_financial_ratios(sections, data)
    /\ pc' = IF ratios'.raised THEN "error" ELSE "ratios"
    /\ UNCHANGED <<sections, data, flags, report_data>>
    /\ UNCHANGED nonPipelineVars

DetectFinancialRedFlags ==
    /\ pc = "ratios"
    /\ flags' = detect_financial_red_flags(sections, data, ratios.entries)
    /\ pc' = IF flags'.raised THEN "error" ELSE "flags"
    /\ UNCHANGED <<sections, data, ratios, report_data>>
    /\ UNCHANGED nonPipelineVars

\* detect_financial_red_flags called on the record with an empty ratios
\* mapping (the method takes any mapping)
DetectWithoutRatios ==
    /\ pc = "extracted"
    /\ flags' = detect_financial_red_flags(sections, data, NoRatios.entries)
    /\ pc' = IF flags'.raised THEN "error" ELSE "flags"
    /\ UNCHANGED <<sections, data, ratios, report_data>>
    /\ UNCHANGED nonPipelineVars

\* generate_key_findings (lines 477-537): the dictionary built from the
\* answer of the findings prompt, whose red_flags are whatever the prompt
\* returned (parsed.get("red_flags", [])), or the error result of lines
\* 532-537; both carry the key red_flags
KeyFindingsResults ==
    {[key_findings |-> "findings", red_flags |-> <<>>],
     [key_findings |-> "findings",
      red_flags |-> <<RedFlag("Findings", "Flag of the findings prompt", "Medium")>>],
     [key_findings |-> "Error generating key findings", red_flags |-> <<>>]}

\* dict.get(key, default) on the key red_flags
GetRedFlags(mapping, default) ==
    IF "red_flags" \in DOMAIN mapping THEN mapping.red_flags ELSE default

\* backend.py lines 257-279: the payload handed to generate_pdf_report
ReportData(key_findings_json, red_flags_detection) ==
    [key_findings |-> key_findings_json.key_findings,
     red_flags |-> GetRedFlags(key_findings_json,
                               GetRedFlags(red_flags_detection, <<>>))]

\* /generate_report after the ratios and the red flags (backend.py lines
\* 250-287)
GenerateReport ==
    /\ pc = "flags"
    /\ ratios # NoRatios
    /\ \E key_findings_json \in KeyFindingsResults :
          report_data' = ReportData(key_findings_json, flags)
    /\ pc' = "report"
    /\ UNCHANGED <<sections, data, ratios, flags>>
    /\ UNCHANGED nonPipelineVars

\* the request is answered (a result or the error path); the next request
\* starts from a fresh record
Respond ==
    /\ pc \in {"flags", "error", "report"}
    /\ pc' = "idle"
    /\ sections' = Sections
    /\ data' = EmptyRecord
    /\ ratios' = NoRatios
    /\ flags' = NoFlags
    /\ report_data' = NoReport
    /\ UNCHANGED nonPipelineVars

Next ==
    \/ ExtractSparse
    \/ ExtractOperands
    \/ ExtractStatement
    \/ ExtractExample
    \/ ExtractPartialStatement
    \/ CalculateFinancialRatios
    \/ DetectFinancialRedFlags
    \/ DetectWithoutRatios
    \/ GenerateReport
    \/ Respond

Spec == Init /\ [][Next]_vars

----------------------------------------------------------------------------
(* /detect_anomalies: the data frame read from the uploaded CSV *)

\* a column of the data frame in CSV order: its header, its pandas dtype
\* and its cells. A cell k stands for the number k x unit of the column
\* (unit 1 for int64, a decimal unit such as 0.1 for float64); the rules
\* of the scan do not depend on the unit. residue is the sign of the
\* rounding error of the column's float64 mean, which the cells determine
\* (0.1 + 0.1 + 0.1 is 0.30000000000000004 and a third of it is
\* 0.10000000000000002); the binary expansion of the cells is not carried,
\* so the sign is chosen with them.
Column(name, dtype, cells, residue) ==
    [name |-> name, dtype |-> dtype, cells |-> cells, residue |-> residue]

RECURSIVE ColumnSum(_)
ColumnSum(cells) ==
    IF cells = <<>> THEN 0 ELSE Head(cells) + ColumnSum(Tail(cells))

\* the mean of small integers is exact in float64, and so are the mean of
\* one or two numbers and the mean of zeros
Residues(dtype, cells) ==
    IF dtype = "float64" /\ Len(cells) >= 3 /\ ColumnSum(cells) # 0
    THEN {0 - 1, 0, 1} ELSE {0}

\* the value columns of n rows
ValueColumns(n) ==
    {Column("Value", dtype, cells, residue) :
        dtype \in {"int64", "float64"},
        cells \in [1..n -> 0..MaxCell],
        residue \in {0 - 1, 0, 1}}

\* a Year column: one distinct year per row
YearColumn(n) == Column("Year", "int64", [i \in 1..n |-> i], 0)

\* a column of text, dtype object
LabelColumn(n) == Column("Label", "object", [i \in 1..n |-> 0], 0)

DataFrame(hasYear, value, hasLabel) ==
    (IF hasYear THEN <<YearColumn(Len(value.cells))>> ELSE <<>>)
    \o <<value>>
    \o (IF hasLabel THEN <<LabelColumn(Len(value.cells))>> ELSE <<>>)

\* one value far from four equal ones, and a spike among eleven zeros
\* (the deviation of the spike is above three standard deviations)
ExampleFrames ==
    {<<Column("Value", "int64", <<10, 10, 10, 10, 100>>, 0)>>,
     <<Column("Value", "int64", <<0, 0, 0, 0, 0, 0, 0, 0, 0, 0, 0, 12>>, 0)>>}

\* sensitivity: float = Form(1.0), any float of the request
Sensitivities == {Rat(p, 2) : p \in (0 - SensNeg)..SensMax}

----------------------------------------------------------------------------
(* The column scan, backend.py lines 324-347 *)

RECURSIVE SumOfSquares(_)
SumOfSquares(cells) ==
    IF cells = <<>> THEN 0 ELSE Head(cells) * Head(cells) + SumOfSquares(Tail(cells))

\* a non-negative float64 quantity: an exact rational v, or a quantity of
\* the size of the rounding error of the mean (v times that error)
Unit(v) == [scale |-> "unit", v |-> v]
Tiny(v) == [scale |-> "residue", v |-> v]
NaN == [scale |-> "nan", v |-> Num(0)]

\* line 327: financial_data[column].mean(), the rounded quotient
Mean(column) ==
    [exact |-> Rat(ColumnSum(column.cells), Len(column.cells)),
     residue |-> column.residue]

\* n times the sum of the squared exact deviations from the mean
Spread(column) ==
    Len(column.cells) * SumOfSquares(column.cells)
        - ColumnSum(column.cells) * ColumnSum(column.cells)

\* abs(financial_data[column] - mean) for row i (lines 332, 339): the exact
\* deviation, or the rounding error of the mean where the cell equals the
\* exact mean
Deviation(column, i) ==
    LET n == Len(column.cells)
        devN == Abs(n * column.cells[i] - ColumnSum(column.cells))
    IN  IF devN # 0 THEN Unit(Rat(devN, n))
        ELSE IF column.residue # 0 THEN Tiny(Num(1))
        ELSE Unit(Num(0))

\* whether the computed deviation of row i is above (1) or below (-1) the
\* exact one: the rounded mean is off by residue
Lean(column, i) ==
    LET n == Len(column.cells)
        S == ColumnSum(column.cells)
    IN  IF n * column.cells[i] < S THEN column.residue
        ELSE IF n * column.cells[i] > S THEN 0 - column.residue
        ELSE 0

\* line 328: the square of financial_data[column].std(), the sample
\* standard deviation (ddof = 1): the sum of the squared deviations from
\* the mean over n - 1; NaN for a single row
Variance(column) ==
    LET n == Len(column.cells)
    IN  IF n < 2 THEN NaN
        ELSE IF Spread(column) # 0 THEN Unit(Rat(Spread(column), n * (n - 1)))
        ELSE IF column.residue # 0 THEN Tiny(Rat(n, n - 1))
        ELSE Unit(Num(0))

\* mutant of Exceeds: the threshold is sensitivity * std
Exceeds_SingleSigma(column, i, s) ==
    LET dev == Deviation(column, i)
        var == Variance(column)
        lhs == dev.v.n * dev.v.n * s.d * s.d * var.v.d
        rhs == s.n * s.n * var.v.n * dev.v.d * dev.v.d
    IN  IF var.scale = "nan" THEN FALSE
        ELSE IF var.v.n = 0 THEN dev.v.n # 0
        ELSE IF s.n < 0 THEN TRUE
        ELSE IF dev.v.n = 0 THEN FALSE
        ELSE IF dev.scale # var.scale THEN dev.scale = "unit" \/ s.n = 0
        ELSE IF lhs = rhs THEN dev.scale = "unit" /\ Lean(column, i) > 0
        ELSE lhs > rhs

\* lines 329 and 332: abs(financial_data[column] - mean) > threshold with
\* threshold = sensitivity * 2 * std, for row i. A comparison with NaN is
\* false; sensitivity * 2 * 0.0 is 0.0 or -0.0; a negative threshold is
\* below every deviation; otherwise the squares are compared, and on an
\* exact tie the rounding of the mean decides.
Exceeds(column, i, s) ==
    LET dev == Deviation(column, i)
        var == Variance(column)
        lhs == dev.v.n * dev.v.n * s.d * s.d * var.v.d
        rhs == 4 * s.n * s.n * var.v.n * dev.v.d * dev.v.d
    IN  IF var.scale = "nan" THEN FALSE
        ELSE IF var.v.n = 0 THEN dev.v.n # 0
        ELSE IF s.n < 0 THEN TRUE
        ELSE IF dev.v.n = 0 THEN FALSE
        ELSE IF dev.scale # var.scale THEN dev.scale = "unit" \/ s.n = 0
        ELSE IF lhs = rhs THEN dev.scale = "unit" /\ Lean(column, i) > 0
        ELSE lhs > rhs

\* mutant of Confidence: without the cap min(..., 1.0)
Confidence_Uncapped(column, i) ==
    LET dev == Deviation(column, i)
        var == Variance(column)
    IN  IF var.scale = "nan" THEN [t |-> "nan", squared |-> Unit(Num(0))]
        ELSE IF var.v.n = 0
        THEN [t |-> IF dev.v.n = 0 THEN "nan" ELSE "num", squared |-> Unit(Num(1))]
        ELSE IF dev.scale # var.scale
        THEN [t |-> "num", squared |-> Tiny(Num(1))]
        ELSE [t |-> "num",
              squared |-> Unit(Rat(dev.v.n * dev.v.n * var.v.d,
                                   9 * dev.v.d * dev.v.d * var.v.n))]

\* line 341: min(abs(row[column] - mean) / (3 * std), 1.0), as its square.
\* A division by a zero std gives inf (capped to 1.0) or, for 0 / 0, NaN,
\* which min returns as it is.
Confidence(column, i) ==
    LET dev == Deviation(column, i)
        var == Variance(column)
        q == Rat(dev.v.n * dev.v.n * var.v.d, 9 * dev.v.d * dev.v.d * var.v.n)
    IN  IF var.scale = "nan" THEN [t |-> "nan", squared |-> Unit(Num(0))]
        ELSE IF var.v.n = 0
        THEN [t |-> IF dev.v.n = 0 THEN "nan" ELSE "num", squared |-> Unit(Num(1))]
        ELSE IF dev.scale # var.scale
        THEN [t |-> "num", squared |-> Tiny(Num(1))]
        ELSE [t |-> "num",
              squared |-> Unit(IF Less(q, Num(1)) THEN q ELSE Num(1))]

\* line 326: select_dtypes(include=['float64', 'int64']).columns
NumericColumns(frame) ==
    LET IsNumeric(column) == column.dtype \in {"float64", "int64"}
    IN  SelectSeq(frame, IsNumeric)

\* line 336: row.get("Year", idx), idx being the 0-based row label
YearOf(frame, i) ==
    LET years == {k \in 1..Len(frame) : frame[k].name = "Year"}
    IN  IF years = {} THEN i - 1 ELSE frame[CHOOSE k \in years : TRUE].cells[i]

\* lines 334-342: the record appended for row i of a column
AnomalyRecord(frame, column, i) ==
    [Year |-> YearOf(frame, i),
     Column |-> column.name,
     Value |-> column.cells[i],
     Mean |-> Mean(column),
     Deviation |-> Deviation(column, i),
     Confidence |-> Confidence(column, i)]

\* lines 332-342: the outliers of one column in row order
ColumnAnomalies(frame, column, s) ==
    LET IsOutlier(i) == Exceeds(column, i, s)
        outliers == SelectSeq([i \in 1..Len(column.cells) |-> i], IsOutlier)
    IN  [k \in 1..Len(outliers) |-> AnomalyRecord(frame, column, outliers[k])]

\* mutant of ScanColumns: the columns are visited last to first
RECURSIVE ScanColumns_Reversed(_, _, _)
ScanColumns_Reversed(frame, columns, s) ==
    IF columns = <<>> THEN <<>>
    ELSE ScanColumns_Reversed(frame, Tail(columns), s)
         \o ColumnAnomalies(frame, Head(columns), s)

\* lines 326-342: the loop over the numeric columns
RECURSIVE ScanColumns(_, _, _)
ScanColumns(frame, columns, s) ==
    IF columns = <<>> THEN <<>>
    ELSE ColumnAnomalies(frame, Head(columns), s)
         \o ScanColumns(frame, Tail(columns), s)

\* a CSV file that has a header line and no data row: pandas gives every
\* column of an empty frame the dtype object
HeaderOnlyFrames ==
    {<<Column("Value", "object", <<>>, 0)>>,
     <<Column("Year", "object", <<>>, 0), Column("Value", "object", <<>>, 0)>>}

\* str(e) of an HTTPException, the detail of the exception raised at line
\* 359: "<status>: <detail>" where HTTPException defines __str__, the
\* empty string where it inherits it from Exception (it passes no
\* argument to Exception.__init__)
StrOfHttpException(status_code, detail) ==
    {(IF status_code = 400 THEN "400: " ELSE "500: ") \o detail, ""}

\* lines 311-324: the upload is read, written to the temporary file and
\* parsed by pd.read_csv
ReadCsv(frame, s) ==
    /\ scan' = "parsed"
    /\ financial_data' = frame
    /\ sensitivity' = s
    /\ content' = "csv"
    /\ temp_file' = "exists"
    /\ UNCHANGED <<response, http>>
    /\ UNCHANGED nonScanVars

\* lines 311-313 and 357-359: an empty upload raises
\* HTTPException(400, "Empty file") inside the outer try, whose
\* "except Exception" catches it and raises HTTPException(500, str(e));
\* no temporary file has been created
UploadEmptyFile ==
    /\ scan = "idle"
    /\ \E s \in Sensitivities : \E detail \in StrOfHttpException(400, "Empty file") :
          /\ sensitivity' = s
          /\ http' = Reply(500, detail)
    /\ scan' = "done"
    /\ content' = "empty"
    /\ UNCHANGED <<financial_data, response, temp_file>>
    /\ UNCHANGED nonScanVars

\* lines 316-322 and 349-359: pd.read_csv raises on the saved file (no
\* column to parse, a malformed line); the inner handler raises
\* HTTPException(500, str(e)), the finally clause removes the temporary
\* file, and the outer handler catches the HTTPException and raises another
UploadUnparsable ==
    /\ scan = "idle"
    /\ \E s \in Sensitivities : \E detail \in StrOfHttpException(500, "parse error") :
          /\ sensitivity' = s
          /\ http' = Reply(500, detail)
    /\ scan' = "done"
    /\ content' = "unparsable"
    /\ temp_file' = "removed"
    /\ UNCHANGED <<financial_data, response>>
    /\ UNCHANGED nonScanVars

UploadHeaderOnly ==
    /\ scan = "idle"
    /\ \E frame \in HeaderOnlyFrames : \E s \in Sensitivities : ReadCsv(frame, s)

UploadCsv ==
    /\ scan = "idle"
    /\ \E n \in 1..MaxRows : \E value \in ValueColumns(n) :
          \E hasYear, hasLabel \in BOOLEAN : \E s \in Sensitivities :
             /\ value.residue \in Residues(value.dtype, value.cells)
             /\ ReadCsv(DataFrame(hasYear, value, hasLabel), s)

UploadExample ==
    /\ scan = "idle"
    /\ \E frame \in ExampleFrames : \E s \in Sensitivities : ReadCsv(frame, s)

\* lines 325-347 and 353-355: the scan and the returned body; the finally
\* clause removes the temporary file
ColumnScan ==
    /\ scan = "parsed"
    /\ LET anomalies == ScanColumns(financial_data,
                                    NumericColumns(financial_data), sensitivity)
       IN  response' = [num_anomalies |-> Len(anomalies), anomalies |-> anomalies]
    /\ scan' = "done"
    /\ http' = Reply(200, "")
    /\ temp_file' = "removed"
    /\ UNCHANGED <<financial_data, sensitivity, content>>
    /\ UNCHANGED nonScanVars

\* the response is sent; the next request starts afresh
ScanRespond ==
    /\ scan = "done"
    /\ scan' = "idle"
    /\ financial_data' = <<>>
    /\ sensitivity' = Num(1)
    /\ response' = NoResponse
    /\ content' = "none"
    /\ temp_file' = "none"
    /\ http' = NoReply
    /\ UNCHANGED nonScanVars

ScanNext ==
    \/ UploadCsv
    \/ UploadExample
    \/ UploadHeaderOnly
    \/ UploadEmptyFile
    \/ UploadUnparsable
    \/ ColumnScan
    \/ ScanRespond

ScanSpec == Init /\ [][ScanNext]_vars

----------------------------------------------------------------------------
(* /chat and /upload_document: the three session maps, backend.py 38-172 *)

\* the session ids a client supplies or uuid4 draws
SessionIds == 1..MaxSessions

\* lines 94-95 and 156-160: one history entry
HistoryEntry(role, text) == [role |-> role, content |-> text]

\* lines 67-70 and 140-143: the subscript assignment that gives a new
\* session its entry in a map; an existing session is left as it is
WithSession(mapping, isNew, session_id, value) ==
    IF isNew
    THEN [k \in DOMAIN mapping \cup {session_id} |->
             IF k = session_id THEN value ELSE mapping[k]]
    ELSE mapping

HistoryAfter_UserBeforeSend(history, sent, asked) ==
    IF sent
    THEN Append(Append(history, HistoryEntry("user", asked)), HistoryEntry("assistant", "text"))
    ELSE Append(history, HistoryEntry("user", asked))

\* lines 88-95 and 153-160: send_message is called first; when it raises
\* the handler leaves for its except clause and nothing is appended, when
\* it returns the user entry and the assistant entry are appended
HistoryAfter(history, sent, asked) ==
    IF sent
    THEN Append(Append(history, HistoryEntry("user", asked)), HistoryEntry("assistant", "text"))
    ELSE history

\* POST /chat, lines 61-101. The handler has no await: it runs from its
\* first line to its response without another request in between.
\* created: client.chats.create returned (line 68); sent: send_message
\* returned (lines 88, 91)
Chat ==
    \E session_id \in SessionIds, created \in BOOLEAN, sent \in BOOLEAN :
       LET isNew == session_id \notin DOMAIN chat_sessions
       IN  /\ IF isNew THEN TRUE
                    ELSE Len(session_history[session_id]) < 2 * MaxPairs
           /\ IF isNew /\ ~created
              THEN /\ reply' = ChatReply("chat", 500, session_id, <<>>)
                   /\ UNCHANGED <<chat_sessions, session_history, session_documents>>
              ELSE LET history == WithSession(session_history, isNew, session_id, <<>>)
                       documents == WithSession(session_documents, isNew, session_id, <<>>)
                   IN  /\ chat_sessions' = WithSession(chat_sessions, isNew, session_id, "gemini-2.0-flash")
                       /\ session_documents' = documents
                       /\ session_history' =
                             [history EXCEPT ![session_id] = HistoryAfter(@, sent, "message")]
                       /\ reply' = ChatReply("chat", IF sent THEN 200 ELSE 500,
                                             session_id, documents[session_id])
           /\ UNCHANGED <<upload, saved_file>>
           /\ UNCHANGED nonSessionVars

\* POST /upload_document, lines 111-117: the upload file is opened for
\* writing and the handler awaits file.read(); other requests run until it
\* is resumed
UploadSave ==
    /\ upload = NoUpload
    /\ \E session_id \in SessionIds, document \in {"report.pdf"} :
          upload' = [session_id |-> session_id, document |-> document]
    /\ saved_file' = "exists"
    /\ UNCHANGED <<chat_sessions, session_history, session_documents, reply>>
    /\ UNCHANGED nonSessionVars

\* POST /upload_document, lines 117-172, from the resumption to the
\* response: the session is created if needed, the document is stored
\* (line 146, before send_message is called at line 153, so it is stored
\* whether the call returns or raises), the message is sent, the history
\* pair is appended and the saved file is removed (lines 163-164, or
\* 169-170 in the except clause)
UploadProcess ==
    /\ upload # NoUpload
    /\ \E created \in BOOLEAN, sent \in BOOLEAN :
       LET session_id == upload.session_id
           isNew == session_id \notin DOMAIN chat_sessions
       IN  /\ IF isNew THEN TRUE
                    ELSE /\ Len(session_history[session_id]) < 2 * MaxPairs
                         /\ Len(session_documents[session_id]) < MaxDocs
           /\ IF isNew /\ ~created
              THEN /\ reply' = ChatReply("upload_document", 500, session_id, <<>>)
                   /\ UNCHANGED <<chat_sessions, session_history, session_documents>>
              ELSE LET history == WithSession(session_history, isNew, session_id, <<>>)
                       documents == WithSession(session_documents, isNew, session_id, <<>>)
                   IN  /\ chat_sessions' = WithSession(chat_sessions, isNew, session_id, "gemini-2.0-flash")
                       /\ session_documents' =
                             [documents EXCEPT ![session_id] = Append(@, upload.document)]
                       /\ session_history' =
                             [history EXCEPT ![session_id] = HistoryAfter(@, sent, "upload")]
                       /\ reply' = ChatReply("upload_document", IF sent THEN 200 ELSE 500,
                                             session_id, <<upload.document>>)
    /\ upload' = NoUpload
    /\ saved_file' = "deleted"
    /\ UNCHANGED nonSessionVars

SessionNext ==
    \/ Chat
    \/ UploadSave
    \/ UploadProcess

SessionSpec == Init /\ [][SessionNext]_vars

----------------------------------------------------------------------------
(* anomaly.py: detect_anomalies_in_data and the persisted artifacts *)

RECURSIVE SumErrors(_, _)
SumErrors(errors, n) ==
    IF n = 0 THEN 0 ELSE errors[n] + SumErrors(errors, n - 1)

RECURSIVE SumSquaredErrors(_, _)
SumSquaredErrors(errors, n) ==
    IF n = 0 THEN 0 ELSE errors[n] * errors[n] + SumSquaredErrors(errors, n - 1)

\* lines 132-134: threshold = mean + threshold_multiplier * std with the
\* population standard deviation of np.std, and the rows whose error is
\* greater than the threshold. With S the sum and Q the sum of squares of
\* the n errors, e > S/n + m * sqrt(Q/n - (S/n)^2) is
\* n*e - S > m * sqrt(n*Q - S^2), and for m >= 0 that is
\* n*e - S > 0 and (n*e - S)^2 > m^2 * (n*Q - S^2)
AnomalyIndices(errors, n, threshold_multiplier) ==
    LET S == SumErrors(errors, n)
        V == n * SumSquaredErrors(errors, n) - S * S
        m == threshold_multiplier
    IN  {i \in 1..n :
            /\ n * errors[i] - S > 0
            /\ (n * errors[i] - S) * (n * errors[i] - S) > m * m * V}

\* the call of caller c ends, returning or raising
Ended(c, status, anomalies) ==
    [call |-> callers[c].call, rows |-> callers[c].rows,
     threshold_multiplier |-> callers[c].threshold_multiplier,
     model |-> callers[c].model, scaler |-> callers[c].scaler,
     status |-> status, anomalies |-> anomalies]

\* an exception leaves detect_anomalies_in_data
RaiseFrom(c, status) ==
    /\ callers' = [callers EXCEPT ![c].pc = "idle"]
    /\ last' = Ended(c, status, {})

\* some other caller has the file open for writing
OtherWriter(c, writing) ==
    \E other \in Callers \ {c} : callers[other].pc = writing

\* line 96: detect_anomalies_in_data(financial_data, threshold_multiplier)
\* is called; lines 101-104 and 73-74
DetectCall(c, rows, multipliers) ==
    /\ callers[c].pc = "idle"
    /\ ncalls < MaxCalls
    /\ ncalls' = ncalls + 1
    /\ \E n \in rows, m \in multipliers :
          callers' = [callers EXCEPT ![c] =
                         [pc |-> "check_model", call |-> ncalls + 1, rows |-> n,
                          columns |-> Features, threshold_multiplier |-> m,
                          model |-> 0, scaler |-> 0]]
    /\ UNCHANGED <<model_file, scaler_file, model_saves, scaler_dumps, last>>
    /\ UNCHANGED nonArtifactVars

\* lines 77-81: os.path.exists(MODEL_PATH); in both branches the caller
\* holds a new FinancialVAE with its own random parameters
CheckModel(c) ==
    /\ callers[c].pc = "check_model"
    /\ callers' = [callers EXCEPT ![c].pc =
                      IF model_file.state = "absent" THEN "save_model"
                      ELSE "check_scaler",
                                  ![c].model = callers[c].call]
    /\ UNCHANGED <<model_file, scaler_file, ncalls, model_saves, scaler_dumps, last>>
    /\ UNCHANGED nonArtifactVars

\* line 79: torch.save opens MODEL_PATH for writing, which creates or
\* truncates it
SaveModelOpen(c) ==
    /\ callers[c].pc = "save_model"
    /\ callers' = [callers EXCEPT ![c].pc = "write_model"]
    /\ model_file' = File(IF OtherWriter(c, "write_model") THEN "mixed" ELSE "partial",
                          callers[c].call)
    /\ model_saves' = model_saves + 1
    /\ UNCHANGED <<scaler_file, ncalls, scaler_dumps, last>>
    /\ UNCHANGED nonArtifactVars

\* line 79: torch.save has written the state_dict and closes the file
SaveModelClose(c) ==
    /\ callers[c].pc = "write_model"
    /\ callers' = [callers EXCEPT ![c].pc = "check_scaler"]
    /\ \E state \in IF OtherWriter(c, "write_model") THEN {model_file.state}
                    ELSE IF model_file.state = "mixed" THEN {"complete", "corrupt"}
                    ELSE {"complete"} :
          model_file' = File(state, callers[c].call)
    /\ UNCHANGED <<scaler_file, ncalls, model_saves, scaler_dumps, last>>
    /\ UNCHANGED nonArtifactVars

\* line 84: os.path.exists(SCALER_PATH)
CheckScaler(c) ==
    /\ callers[c].pc = "check_scaler"
    /\ callers' = [callers EXCEPT ![c].pc =
                      IF scaler_file.state = "absent" THEN "fit_scaler"
                      ELSE "load_scaler"]
    /\ UNCHANGED <<model_file, scaler_file, ncalls, model_saves, scaler_dumps, last>>
    /\ UNCHANGED nonArtifactVars

\* lines 85-87: StandardScaler().fit(data); fit raises ValueError on an
\* array without a row
FitScaler(c) ==
    /\ callers[c].pc = "fit_scaler"
    /\ IF callers[c].rows = 0
       THEN RaiseFrom(c, "fit")
       ELSE /\ callers' = [callers EXCEPT ![c].pc = "dump_scaler",
                                          ![c].scaler = callers[c].call]
            /\ UNCHANGED last
    /\ UNCHANGED <<model_file, scaler_file, ncalls, model_saves, scaler_dumps>>
    /\ UNCHANGED nonArtifactVars

\* line 88: open(SCALER_PATH, 'wb') creates or truncates the file
DumpScalerOpen(c) ==
    /\ callers[c].pc = "dump_scaler"
    /\ callers' = [callers EXCEPT ![c].pc = "write_scaler"]
    /\ scaler_file' = File(IF OtherWriter(c, "write_scaler") THEN "mixed" ELSE "partial",
                           callers[c].call)
    /\ scaler_dumps' = scaler_dumps + 1
    /\ UNCHANGED <<model_file, ncalls, model_saves, last>>
    /\ UNCHANGED nonArtifactVars

\* line 89: pickle.dump has written the scaler and the with block closes
\* the file
DumpScalerClose(c) ==
    /\ callers[c].pc = "write_scaler"
    /\ callers' = [callers EXCEPT ![c].pc = "load_model"]
    /\ \E state \in IF OtherWriter(c, "write_scaler") THEN {scaler_file.state}
                    ELSE IF scaler_file.state = "mixed" THEN {"complete", "corrupt"}
                    ELSE {"complete"} :
          scaler_file' = File(state, callers[c].call)
    /\ UNCHANGED <<model_file, ncalls, model_saves, scaler_dumps, last>>
    /\ UNCHANGED nonArtifactVars

\* lines 91-92: pickle.load of SCALER_PATH; it raises on a file that does
\* not hold a whole pickle
LoadScaler(c) ==
    /\ callers[c].pc = "load_scaler"
    /\ IF scaler_file.state = "complete"
       THEN /\ callers' = [callers EXCEPT ![c].pc = "load_model",
                                          ![c].scaler = scaler_file.by]
            /\ UNCHANGED last
       ELSE RaiseFrom(c, "corrupt")
    /\ UNCHANGED <<model_file, scaler_file, ncalls, model_saves, scaler_dumps>>
    /\ UNCHANGED nonArtifactVars

\* lines 107-114: scaler.transform(X), which raises ValueError on an array
\* without a row; then, if MODEL_PATH exists, torch.load of it, which
\* raises on a file that does not hold a whole archive
LoadModel(c) ==
    /\ callers[c].pc = "load_model"
    /\ IF callers[c].rows = 0
       THEN RaiseFrom(c, "transform")
       ELSE IF model_file.state = "absent"
       THEN /\ callers' = [callers EXCEPT ![c].pc = "score"]
            /\ UNCHANGED last
       ELSE IF model_file.state = "complete"
       THEN /\ callers' = [callers EXCEPT ![c].pc = "score",
                                          ![c].model = model_file.by]
            /\ UNCHANGED last
       ELSE RaiseFrom(c, "corrupt")
    /\ UNCHANGED <<model_file, scaler_file, ncalls, model_saves, scaler_dumps>>
    /\ UNCHANGED nonArtifactVars

\* lines 116-143: the rows are scored. reparameterize (lines 48-51) draws
\* eps with torch.randn_like on every forward pass, in eval mode too, so
\* the error of a row is any multiple of one unit up to MaxErr; the frame of the caller is given the
\* columns Reconstruction_Error and Anomaly (lines 137-139)
Score(c) ==
    /\ callers[c].pc = "score"
    /\ callers' = [callers EXCEPT ![c].pc = "idle",
                                  ![c].columns = @ \cup {"Reconstruction_Error", "Anomaly"}]
    /\ \E reconstruction_errors \in [1..callers[c].rows -> 0..MaxErr] :
          last' = Ended(c, "ok",
                        AnomalyIndices(reconstruction_errors, callers[c].rows,
                                       callers[c].threshold_multiplier))
    /\ UNCHANGED <<model_file, scaler_file, ncalls, model_saves, scaler_dumps>>
    /\ UNCHANGED nonArtifactVars

\* the process stops while a call is running: the callers are gone, the
\* files stay as they are
Crash ==
    /\ \E c \in Callers : callers[c].pc # "idle"
    /\ callers' = [c \in Callers |-> [callers[c] EXCEPT !.pc = "idle"]]
    /\ UNCHANGED <<model_file, scaler_file, ncalls, model_saves, scaler_dumps, last>>
    /\ UNCHANGED nonArtifactVars

\* the steps of one call after its start
Step(c) ==
    \/ CheckModel(c)
    \/ SaveModelOpen(c)
    \/ SaveModelClose(c)
    \/ CheckScaler(c)
    \/ FitScaler(c)
    \/ DumpScalerOpen(c)
    \/ DumpScalerClose(c)
    \/ LoadScaler(c)
    \/ LoadModel(c)
    \/ Score(c)

\* calls that follow one another: one caller, frames from the frame
\* without a data row on, any multiplier (1 is the default)
SequentialNext ==
    \/ DetectCall(1, 0..MaxDataRows, 0..MaxMultiplier)
    \/ Step(1)

SequentialSpec == Init /\ [][SequentialNext]_vars

\* calls that run at the same time, each with a frame of MaxDataRows rows
\* and the default multiplier
ConcurrentNext ==
    \E c \in Callers :
       \/ DetectCall(c, {MaxDataRows}, {1})
       \/ Step(c)

ConcurrentSpec == Init /\ [][ConcurrentNext]_vars

\* calls that follow one another in a process that may stop at any point
CrashNext ==
    \/ SequentialNext
    \/ Crash

CrashSpec == Init /\ [][CrashNext]_vars

----------------------------------------------------------------------------
(* Properties *)

\* calculate_financial_ratios has returned on the current record
CalcReturned ==
    pc \in {"ratios", "flags", "error"} /\ ratios # NoRatios /\ ~ratios.raised

\* calculate_financial_ratios has run on the current record
CalcDone == pc \in {"ratios", "flags", "error"} /\ ratios # NoRatios

\* detect_financial_red_flags has returned on the current record
DetectReturned == pc = "flags"

\* the operands section 4.1 of the specification names for each ratio:
\* <<numerator field, denominator field>>
Operands ==
    [name \in StandardNames |->
        CASE name = "Current Ratio" -> <<"current_assets", "current_liabilities">>
          [] name = "Cash Ratio" -> <<"cash_and_equivalents", "current_liabilities">>
          [] name = "Debt to Equity Ratio" -> <<"total_liabilities", "shareholders_equity">>
          [] name = "Gross Margin Ratio" -> <<"gross_profit", "net_sales">>
          [] name = "Operating Margin Ratio" -> <<"operating_income", "net_sales">>
          [] name = "Return on Assets Ratio" -> <<"net_income", "total_assets">>
          [] name = "Return on Equity Ratio" -> <<"net_income", "shareholders_equity">>
          [] name = "Asset Turnover Ratio" -> <<"net_sales", "total_assets">>
          [] name = "Inventory Turnover Ratio" -> <<"cost_of_goods_sold", "average_inventory">>
          [] name = "Receivables Turnover Ratio" -> <<"net_sales", "average_accounts_receivable">>
          [] name = "Debt Ratio" -> <<"total_liabilities", "total_assets">>
          [] name = "Interest Coverage Ratio" -> <<"operating_income", "interest_expenses">>]

MarginNames == {"Gross Margin Ratio", "Operating Margin Ratio",
                "Return on Assets Ratio", "Return on Equity Ratio"}

NotApplicableNames == StandardNames \ MarginNames

\* the operand of the current record, an absent one counting as 0
Numerator(name) == GetOrZero(sections, data, Operands[name][1])
Denominator(name) == GetOrZero(sections, data, Operands[name][2])

\* C1: for Gross Margin, Operating Margin, Return on Assets and Return on
\* Equity, whenever the denominator is 0 the returned ratio_value is the
\* number 0.0 (not "N/A", not an exception).
C1_MarginZeroIsZero ==
    CalcReturned =>
        \A name \in MarginNames :
            IsZero(Denominator(name)) =>
                ratios.entries[name].ratio_value = Num(0)

\* C2: for the eight other standard ratios a denominator of 0 makes
\* ratio_value the "N/A" sentinel: computing the entry does not raise and
\* yields neither infinity nor a number, and a returned dictionary
\* carries that sentinel.
C2_ZeroDenominatorNotApplicable ==
    pc # "idle" =>
        \A name \in NotApplicableNames :
            IsZero(Denominator(name)) =>
                /\ StandardRatios(sections, data)[name].ratio_value = NA
                /\ CalcReturned => ratios.entries[name].ratio_value = NA

\* C2 witness: a returned dictionary for a record with positive
\* current_assets and current_liabilities = 0, where
\* calculate_current_ratio itself would answer infinity
C2_Witness ==
    /\ CalcReturned
    /\ data["current_liabilities"] = Num(0)
    /\ IsNum(data["current_assets"]) /\ data["current_assets"].n > 0
    /\ calculate_current_ratio(data["current_assets"], data["current_liabilities"]) = Inf
    /\ ratios.entries["Current Ratio"].ratio_value = NA

\* no field of the current record is malformed: each is missing, null or
\* a number
NoStrings == \A f \in Fields : data[f].t # "str"

\* C3: calculate_financial_ratios never raises for a record in which any
\* subset of the fields is absent (missing key, null value, or missing
\* section).
C3_AbsentNeverRaises ==
    (CalcDone /\ NoStrings) => ~ratios.raised

\* the current record with every malformed operand made absent
WithoutStrings == [f \in Fields |-> IF data[f].t = "str" THEN Absent ELSE data[f]]

\* C4: for a record with a non-numeric operand calculate_financial_ratios
\* does not raise and returns what it returns for the record in which
\* that operand is absent.
C4_MalformedAsAbsent ==
    (CalcDone /\ ~NoStrings) =>
        /\ ~ratios.raised
        /\ ratios = calculate_financial_ratios(sections, WithoutStrings)

\* C5: for each of the twelve standard ratios, whenever the denominator is
\* a nonzero number (and the numerator a number, an absent one being 0),
\* ratio_value is numerator / denominator for the operands the
\* specification names, and the entry records those operands.
C5_RatioIsQuotient ==
    pc # "idle" =>
        \A name \in StandardNames :
            LET num == Numerator(name)
                den == Denominator(name)
                expected == [numerator |-> num, denominator |-> den,
                             ratio_value |-> Rat(num.n * den.d, num.d * den.n)]
            IN  (IsNum(num) /\ IsNum(den) /\ den.n # 0) =>
                    /\ StandardRatios(sections, data)[name] = expected
                    /\ CalcReturned => ratios.entries[name] = expected

\* C5 witness: a returned dictionary whose Debt Ratio is a proper fraction
\* of two supplied operands
C5_Witness ==
    /\ CalcReturned
    /\ data["total_liabilities"].t = "num" /\ data["total_assets"].t = "num"
    /\ data["total_liabilities"].n > 0
    /\ data["total_assets"].n > data["total_liabilities"].n
    /\ ratios.entries["Debt Ratio"].ratio_value =
          Rat(data["total_liabilities"].n, data["total_assets"].n)
    /\ ratios.entries["Debt Ratio"].ratio_value.d > 1

GrowthNames == {"Sales Growth", "Profit Growth", "Asset Growth"}

\* the operands the specification names for each growth metric:
\* <<current-year field, previous-year field>>
GrowthFields ==
    [name \in GrowthNames |->
        CASE name = "Sales Growth" -> <<"net_sales", "previous_year_sales">>
          [] name = "Profit Growth" -> <<"net_income", "previous_year_net_income">>
          [] name = "Asset Growth" -> <<"total_assets", "previous_year_total_assets">>]

\* C6: each growth entry is present in the result exactly when both its
\* operands are present and the previous-year operand is nonzero (a
\* present current-year value of 0 included), and growth_percentage is
\* then (current - previous) / previous x 100.
C6_GrowthWhenBothPresent ==
    CalcReturned =>
        \A name \in GrowthNames :
            LET current == data[GrowthFields[name][1]]
                previous == data[GrowthFields[name][2]]
            IN  /\ (name \in DOMAIN ratios.entries) <=>
                       (IsNum(current) /\ IsNum(previous) /\ previous.n # 0)
                /\ (name \in DOMAIN ratios.entries) =>
                       ratios.entries[name].growth_percentage =
                           Rat((current.n - previous.n) * 100, previous.n)

\* C7: the "Cash Flow to Net Income Ratio" and "Free Cash Flow" entries
\* appear only if the record supplies operating_cash_flow, respectively
\* free_cash_flow; Free Cash Flow then carries the supplied value and the
\* ratio is operating_cash_flow / net_income.
C7_CashFlowOnlyIfSupplied ==
    CalcReturned =>
        /\ ("Free Cash Flow" \in DOMAIN ratios.entries) =>
              /\ data["free_cash_flow"].t \notin {"absent", "null"}
              /\ ratios.entries["Free Cash Flow"].value = data["free_cash_flow"]
        /\ ("Cash Flow to Net Income Ratio" \in DOMAIN ratios.entries) =>
              /\ data["operating_cash_flow"].t \notin {"absent", "null"}
              /\ ratios.entries["Cash Flow to Net Income Ratio"].ratio_value =
                    Div(data["operating_cash_flow"], data["net_income"])

\* rule 1 of the specification: revenue growth above 50% year over year
Rule1Triggered ==
    LET net_sales == data["net_sales"]
        previous_year_sales == data["previous_year_sales"]
    IN  /\ IsNum(net_sales) /\ IsNum(previous_year_sales)
        /\ previous_year_sales.n # 0
        /\ Less(Rat(1, 2),
                Rat(net_sales.n - previous_year_sales.n, previous_year_sales.n))

\* rule 3: Interest Coverage present and below 2.0
Rule3Triggered ==
    /\ IsNum(Numerator("Interest Coverage Ratio"))
    /\ IsNum(Denominator("Interest Coverage Ratio"))
    /\ Denominator("Interest Coverage Ratio").n # 0
    /\ Less(Rat(Numerator("Interest Coverage Ratio").n,
                Denominator("Interest Coverage Ratio").n), Num(2))

\* rule 6: Debt Ratio above 0.7
Rule6Triggered ==
    /\ IsNum(Numerator("Debt Ratio")) /\ IsNum(Denominator("Debt Ratio"))
    /\ Denominator("Debt Ratio").n # 0
    /\ Less(Rat(7, 10),
            Rat(Numerator("Debt Ratio").n, Denominator("Debt Ratio").n))

\* C8: for a record that triggers rules 1, 3 and 6, red_flags holds the
\* three flags, rule 1's before rule 3's before rule 6's.
C8_RuleOrder136 ==
    (CalcReturned /\ DetectReturned
       /\ Rule1Triggered /\ Rule3Triggered /\ Rule6Triggered) =>
        \E i, j, k \in 1..Len(flags.red_flags) :
            /\ i < j /\ j < k
            /\ flags.red_flags[i].category = "Revenue"
            /\ flags.red_flags[j].category = "Solvency"
            /\ \/ flags.red_flags[k].category = "High Leverage"
               \/ flags.red_flags[k].issue = "High Leverage"

\* C9: in every result of detect_financial_red_flags, has_critical_issues
\* holds exactly when some red flag has severity High, and has_concerns
\* exactly when red_flags is not empty.
C9_DerivedBooleans ==
    DetectReturned =>
        /\ flags.has_critical_issues <=>
              (\E i \in 1..Len(flags.red_flags) :
                   flags.red_flags[i].severity = "High")
        /\ flags.has_concerns <=> (flags.red_flags # <<>>)

\* C9 witness: a result whose first flag is Medium and a later one High
C9_Witness ==
    /\ DetectReturned
    /\ Len(flags.red_flags) >= 2
    /\ flags.red_flags[1].severity = "Medium"
    /\ \E i \in 2..Len(flags.red_flags) : flags.red_flags[i].severity = "High"
    /\ flags.has_critical_issues /\ flags.has_concerns

HasRevenueFlag ==
    \E i \in 1..Len(flags.red_flags) :
        /\ flags.red_flags[i].category = "Revenue"
        /\ flags.red_flags[i].severity = "Medium"

----------------------------------------------------------------------------
(* The red flags of detect_financial_red_flags and the anomalies of
   calculate_financial_ratios *)

\* detect_financial_red_flags has run on the current record (it returned
\* or it raised)
DetectDone == pc = "flags" \/ (pc = "error" /\ flags.raised)

\* a red flag of the given category and severity is in the result
HasFlag(category, severity) ==
    \E i \in 1..Len(flags.red_flags) :
        /\ flags.red_flags[i].category = category
        /\ flags.red_flags[i].severity = severity

HasCategory(category) ==
    \E i \in 1..Len(flags.red_flags) : flags.red_flags[i].category = category

\* rule 2 of the specification: net_income and operating_cash_flow are
\* numbers, operating_cash_flow is not 0 and net_income > 2 x operating_cash_flow
Rule2Triggered ==
    LET net_income == data["net_income"]
        operating_cash_flow == data["operating_cash_flow"]
    IN  /\ IsNum(net_income) /\ IsNum(operating_cash_flow)
        /\ operating_cash_flow.n # 0
        /\ Less(Rat(2 * operating_cash_flow.n, operating_cash_flow.d), net_income)

\* C11: the Cash Flow flag of severity High is emitted exactly when
\* net_income and operating_cash_flow are both present,
\* operating_cash_flow is not 0 and net_income > 2 x operating_cash_flow,
\* a net_income of 0 with a negative operating_cash_flow included.
C11_CashFlowExactlyAboveDouble ==
    DetectReturned =>
        /\ HasFlag("Cash Flow", "High") <=> Rule2Triggered
        /\ HasCategory("Cash Flow") => HasFlag("Cash Flow", "High")

\* the ratio_value the detector reads for a name in the ratios mapping it
\* was given (the mapping is empty when it was called without ratios)
GivenRatio(name) ==
    IF name \in DOMAIN ratios.entries
    THEN ratios.entries[name].ratio_value ELSE Absent

\* C12: the Solvency flag is emitted exactly when the Interest Coverage
\* ratio_value of the ratios mapping is a number below 2.0, never when it
\* is the not-applicable value or missing; its severity is High when the
\* ratio is below 1.0 and Medium otherwise.
C12_SolvencyBelowTwo ==
    DetectReturned =>
        LET v == GivenRatio("Interest Coverage Ratio")
            flagged == IsNum(v) /\ Less(v, Num(2))
        IN  /\ HasCategory("Solvency") <=> flagged
            /\ flagged => (HasFlag("Solvency", "High") <=> Less(v, Num(1)))
            /\ flagged => (HasFlag("Solvency", "Medium") <=> ~Less(v, Num(1)))

\* C12 witness: a ratio in [1, 2) flagged Medium
C12_Witness ==
    /\ DetectReturned
    /\ IsNum(GivenRatio("Interest Coverage Ratio"))
    /\ ~Less(GivenRatio("Interest Coverage Ratio"), Num(1))
    /\ Less(GivenRatio("Interest Coverage Ratio"), Num(2))
    /\ HasFlag("Solvency", "Medium")

HasWorkingCapitalFlag(severity) ==
    \E i \in 1..Len(flags.red_flags) :
        /\ flags.red_flags[i].category = "Liquidity"
        /\ flags.red_flags[i].issue = "Working capital deficiency"
        /\ flags.red_flags[i].severity = severity

\* C13: the Liquidity / Working capital deficiency flag is emitted exactly
\* when the Current Ratio ratio_value is a number below 1.0, with severity
\* High when it is below 0.8 and Medium otherwise; for current_assets = 50
\* and current_liabilities = 100 the Current Ratio is 0.5 and the flag is
\* High.
C13_LiquidityBelowOne ==
    DetectReturned =>
        LET v == GivenRatio("Current Ratio")
            flagged == IsNum(v) /\ Less(v, Num(1))
        IN  /\ HasCategory("Liquidity") <=> flagged
            /\ flagged => (HasWorkingCapitalFlag("High") <=> Less(v, Rat(4, 5)))
            /\ flagged => (HasWorkingCapitalFlag("Medium") <=> ~Less(v, Rat(4, 5)))
            /\ (CalcReturned /\ data["current_assets"] = Num(50)
                  /\ data["current_liabilities"] = Num(100)) =>
                  (v = Rat(1, 2) /\ HasWorkingCapitalFlag("High"))

\* C13 witness: the High flag for current_assets = 50 and
\* current_liabilities = 100
C13_Witness ==
    /\ DetectReturned /\ CalcReturned
    /\ data["current_assets"] = Num(50) /\ data["current_liabilities"] = Num(100)
    /\ GivenRatio("Current Ratio") = Rat(1, 2)
    /\ HasWorkingCapitalFlag("High")

\* rule 5 of the specification: net_income > operating_income and
\* interest_expenses > 0
Rule5Triggered ==
    /\ IsNum(data["net_income"]) /\ IsNum(data["operating_income"])
    /\ IsNum(data["interest_expenses"])
    /\ Less(data["operating_income"], data["net_income"])
    /\ Less(Num(0), data["interest_expenses"])

\* C14: for every record with net_income > operating_income and
\* interest_expenses > 0, red_flags holds an Income Anomaly flag of
\* severity Medium.
C14_IncomeAnomalyInRedFlags ==
    (CalcReturned /\ DetectReturned /\ Rule5Triggered) =>
        \E i \in 1..Len(flags.red_flags) :
            /\ \/ flags.red_flags[i].category = "Income Anomaly"
               \/ flags.red_flags[i].issue = "Income Anomaly"
            /\ flags.red_flags[i].severity = "Medium"

\* the number of Cash Flow Discrepancy anomalies of a severity in the
\* Anomalies list of the ratios
Discrepancies(severity) ==
    Cardinality({i \in 1..Len(ratios.Anomalies) :
                    /\ ratios.Anomalies[i].type = "Cash Flow Discrepancy"
                    /\ ratios.Anomalies[i].severity = severity})

\* C15: when operating_cash_flow and net_income are both present, a Cash
\* Flow Discrepancy of severity High is produced exactly when
\* operating_cash_flow < 0 and net_income > 0, one of severity Medium
\* exactly when both are positive and operating_cash_flow is below half of
\* net_income, none in every other case and never both.
C15_CashFlowDiscrepancy ==
    (CalcReturned /\ IsNum(data["operating_cash_flow"]) /\ IsNum(data["net_income"])) =>
        LET ocf == data["operating_cash_flow"]
            ni == data["net_income"]
            high == ocf.n < 0 /\ ni.n > 0
            medium == ocf.n > 0 /\ ni.n > 0 /\ Less(Rat(2 * ocf.n, ocf.d), ni)
        IN  /\ Discrepancies("High") = (IF high THEN 1 ELSE 0)
            /\ Discrepancies("Medium") = (IF medium THEN 1 ELSE 0)
            /\ Discrepancies("High") + Discrepancies("Medium") <= 1
            /\ \A i \in 1..Len(ratios.Anomalies) :
                  ratios.Anomalies[i].type = "Cash Flow Discrepancy" =>
                      ratios.Anomalies[i].severity \in {"High", "Medium"}

\* C15 witness: a positive operating_cash_flow below half of net_income,
\* reported Medium
C15_Witness ==
    /\ CalcReturned
    /\ IsNum(data["operating_cash_flow"]) /\ IsNum(data["net_income"])
    /\ data["operating_cash_flow"].n > 0
    /\ Less(Rat(2 * data["operating_cash_flow"].n, data["operating_cash_flow"].d),
            data["net_income"])
    /\ Discrepancies("Medium") = 1 /\ Discrepancies("High") = 0

\* the record with every field outside S absent
Restrict(S) == [f \in Fields |-> IF f \in S THEN data[f] ELSE Absent]

IsAbsent(f) == data[f].t \in {"absent", "null"}

\* C16: detect_financial_red_flags never raises for a record whose
\* operands are numbers, null or missing, with any ratios mapping; an
\* absent operand suppresses the rules that read it, and every other rule
\* yields what it yields on its own operands alone.
C16_AbsentOperandsNeverRaise ==
    (DetectDone /\ NoStrings) =>
        /\ ~flags.raised
        /\ (IsAbsent("net_sales") \/ IsAbsent("previous_year_sales"))
              => ~HasCategory("Revenue")
        /\ (IsAbsent("net_income") \/ IsAbsent("operating_cash_flow"))
              => ~HasCategory("Cash Flow")
        /\ HasCategory("Revenue") <=>
              RevenueFlag(sections, Restrict({"net_sales", "previous_year_sales"})).found # <<>>
        /\ HasCategory("Cash Flow") <=>
              CashFlowFlag(sections, Restrict({"net_income", "operating_cash_flow"})).found # <<>>
        /\ HasCategory("Solvency") <=>
              (IsNum(GivenRatio("Interest Coverage Ratio"))
                 /\ Less(GivenRatio("Interest Coverage Ratio"), Num(2)))
        /\ HasCategory("Liquidity") <=>
              (IsNum(GivenRatio("Current Ratio"))
                 /\ Less(GivenRatio("Current Ratio"), Num(1)))

\* C16 witness: net_sales is absent, the Revenue rule is silent and the
\* Cash Flow, Solvency and Liquidity rules have fired
C16_Witness ==
    /\ DetectReturned /\ NoStrings
    /\ IsAbsent("net_sales") /\ IsNum(data["previous_year_sales"])
    /\ ~HasCategory("Revenue")
    /\ HasCategory("Cash Flow") /\ HasCategory("Solvency") /\ HasCategory("Liquidity")

----------------------------------------------------------------------------
(* The column scan of /detect_anomalies *)

\* the scan has returned its body for the current upload
ScanDone == scan = "done"

IsNumericColumn(k) == financial_data[k].dtype \in {"float64", "int64"}

\* the values of column k are all equal
IsConstantColumn(k) ==
    \A i, j \in 1..Len(financial_data[k].cells) :
        financial_data[k].cells[i] = financial_data[k].cells[j]

\* the position of the column a record names
ColumnOf(record) ==
    CHOOSE k \in 1..Len(financial_data) : financial_data[k].name = record.Column

\* the row (1-based) a record was emitted for
RowOf(record) ==
    IF \E k \in 1..Len(financial_data) : financial_data[k].name = "Year"
    THEN record.Year ELSE record.Year + 1

RecordsOf(k) ==
    {j \in 1..Len(response.anomalies) :
        response.anomalies[j].Column = financial_data[k].name}

\* C17: a numeric column whose values are all equal contributes no anomaly
\* record, whatever the sensitivity (positive, zero or negative).
C17_ConstantColumnSilent ==
    ScanDone =>
        \A k \in 1..Len(financial_data) :
            (IsNumericColumn(k) /\ IsConstantColumn(k)) => RecordsOf(k) = {}

\* C18: every anomaly record of the column scan has a Confidence that is a
\* number with 0 <= Confidence <= 1, and the standard deviation of its
\* column is a number other than zero.
C18_ConfidenceInUnitInterval ==
    ScanDone =>
        \A j \in 1..Len(response.anomalies) :
            LET record == response.anomalies[j]
                var == Variance(financial_data[ColumnOf(record)])
            IN  /\ record.Confidence.t = "num"
                /\ record.Confidence.squared.v.n >= 0
                /\ ~Less(Num(1), record.Confidence.squared.v)
                /\ var.scale # "nan" /\ var.v.n > 0

\* C18 witness: a record whose deviation is above three standard
\* deviations, with Confidence capped to 1, after a scan with a negative
\* sensitivity
C18_Witness ==
    /\ ScanDone
    /\ sensitivity.n < 0
    /\ \E j \in 1..Len(response.anomalies) :
          /\ response.anomalies[j].Value = 12
          /\ response.anomalies[j].Confidence = [t |-> "num", squared |-> Unit(Num(1))]
    /\ \E j \in 1..Len(response.anomalies) :
          /\ response.anomalies[j].Deviation = Unit(Num(1))
          /\ Less(response.anomalies[j].Confidence.squared.v, Num(1))

\* the data frame whose single numeric column is [10, 10, 10, 10, 100]
IsHundredFrame ==
    /\ Len(financial_data) = 1
    /\ financial_data[1].dtype = "int64"
    /\ financial_data[1].cells = <<10, 10, 10, 10, 100>>

\* C19 as stated: for the single numeric column [10, 10, 10, 10, 100] and
\* sensitivity 1.0 the scan returns exactly one record, the one of the
\* value 100.
C19_OneRecordForHundred ==
    (ScanDone /\ IsHundredFrame /\ sensitivity = Num(1)) =>
        /\ response.num_anomalies = 1
        /\ Len(response.anomalies) = 1
        /\ response.anomalies[1].Value = 100

\* C19 amended: for the single numeric column [10, 10, 10, 10, 100] the
\* scan returns no record at sensitivity 1.0 (the deviation 72 of the value
\* 100 is below the threshold of two sample standard deviations, 80.5),
\* and exactly one record, the one of the value 100, at sensitivity 0.5.
C19_HundredWithinTwoSigma ==
    (ScanDone /\ IsHundredFrame) =>
        /\ sensitivity = Num(1) =>
              (response.num_anomalies = 0 /\ response.anomalies = <<>>)
        /\ sensitivity = Rat(1, 2) =>
              /\ response.num_anomalies = 1
              /\ Len(response.anomalies) = 1
              /\ response.anomalies[1].Value = 100
              /\ response.anomalies[1].Mean.exact = Num(28)
              /\ response.anomalies[1].Deviation = Unit(Num(72))

\* C19 witness: the scan of [10, 10, 10, 10, 100] at sensitivity 1.0 has
\* returned an empty list
C19_Witness ==
    /\ ScanDone /\ IsHundredFrame /\ sensitivity = Num(1)
    /\ response.num_anomalies = 0

\* |value - mean| > sensitivity x 2 x standard deviation for row i of
\* column k, on the mean and the sample standard deviation of the column
\* as float64 computes them: with n rows, sum S and squared sum Q the
\* inequality is (n x - S)^2 (n - 1) > 4 sensitivity^2 n (n Q - S^2);
\* nothing is above a NaN threshold (n = 1); every deviation is above a
\* negative threshold; a rounded mean differs from every cell.
Outlying(k, i) ==
    LET cells == financial_data[k].cells
        rounded == financial_data[k].residue
        n == Len(cells)
        S == ColumnSum(cells)
        M == n * SumOfSquares(cells) - S * S
        p == sensitivity.n
        q == sensitivity.d
        lhs == (n * cells[i] - S) * (n * cells[i] - S) * (n - 1) * q * q
        rhs == 4 * p * p * n * M
    IN  IF n < 2 THEN FALSE
        ELSE IF M = 0 THEN rounded # 0 /\ (p < 0 \/ 4 * p * p * n < (n - 1) * q * q)
        ELSE IF p < 0 THEN TRUE
        ELSE IF n * cells[i] = S THEN rounded # 0 /\ p = 0
        ELSE \/ lhs > rhs
             \/ lhs = rhs /\ rounded > 0 /\ n * cells[i] < S
             \/ lhs = rhs /\ rounded < 0 /\ n * cells[i] > S

\* C20: the scan returns exactly one record for every cell of a numeric
\* column with |value - mean| > sensitivity x 2 x standard deviation and
\* none for any other cell, ordered by column and then by row, and
\* num_anomalies is the number of records.
C20_OneRecordPerOutlier ==
    ScanDone =>
        LET records == response.anomalies
        IN  /\ \A k \in 1..Len(financial_data) :
                  \A i \in 1..Len(financial_data[k].cells) :
                      Cardinality({j \in RecordsOf(k) : RowOf(records[j]) = i})
                          = (IF IsNumericColumn(k) /\ Outlying(k, i) THEN 1 ELSE 0)
            /\ \A j \in 1..Len(records) :
                  /\ \E k \in 1..Len(financial_data) :
                        financial_data[k].name = records[j].Column
                  /\ RowOf(records[j]) \in 1..Len(financial_data[ColumnOf(records[j])].cells)
                  /\ records[j].Value =
                        financial_data[ColumnOf(records[j])].cells[RowOf(records[j])]
            /\ \A j \in 1..(Len(records) - 1) :
                  \/ ColumnOf(records[j]) < ColumnOf(records[j + 1])
                  \/ /\ ColumnOf(records[j]) = ColumnOf(records[j + 1])
                     /\ RowOf(records[j]) < RowOf(records[j + 1])
            /\ response.num_anomalies = Len(records)

\* C20 witness: a scan with a sensitivity that is not negative returns
\* records of two columns, two of them of one column, and leaves a cell of
\* a numeric column without a record
C20_Witness ==
    /\ ScanDone
    /\ sensitivity.n >= 0
    /\ \E j \in 1..(Len(response.anomalies) - 1) :
          response.anomalies[j].Column # response.anomalies[j + 1].Column
    /\ \E j \in 1..(Len(response.anomalies) - 1) :
          response.anomalies[j].Column = response.anomalies[j + 1].Column
    /\ \E k \in 1..Len(financial_data) :
          /\ IsNumericColumn(k)
          /\ Cardinality(RecordsOf(k)) < Len(financial_data[k].cells)

----------------------------------------------------------------------------
(* The two growth computations *)

\* the Sales Growth entry of the ratios holds a number above 50 (percent)
SalesGrowthAboveFifty ==
    /\ "Sales Growth" \in DOMAIN ratios.entries
    /\ IsNum(ratios.entries["Sales Growth"].growth_percentage)
    /\ Less(Num(50), ratios.entries["Sales Growth"].growth_percentage)

\* C27: for every record, detect_financial_red_flags emits the Revenue red
\* flag if and only if calculate_financial_ratios produced on the same
\* record a Sales Growth entry whose growth_percentage is a number above
\* 50, records with a negative previous_year_sales included.
C27_GrowthComputationsAgree ==
    (CalcReturned /\ DetectReturned) =>
        (HasCategory("Revenue") <=> SalesGrowthAboveFifty)

----------------------------------------------------------------------------
(* The report payload of /generate_report *)

\* the payload for generate_pdf_report has been built
ReportBuilt == pc = "report"

\* C26: whenever detect_financial_red_flags returns a red_flags list that
\* is not empty, those flags are contained in report_data["red_flags"],
\* whatever generate_key_findings returns, its error result included.
C26_DetectedFlagsInReport ==
    (ReportBuilt /\ flags.red_flags # <<>>) =>
        \A i \in 1..Len(flags.red_flags) :
            \E j \in 1..Len(report_data.red_flags) :
                report_data.red_flags[j] = flags.red_flags[i]

----------------------------------------------------------------------------
(* Empty uploads and error responses of /detect_anomalies *)

\* the dataset of the request is empty: nothing was uploaded, or the file
\* has no data row
EmptyDataset ==
    \/ content = "empty"
    \/ /\ content = "csv"
       /\ \A k \in 1..Len(financial_data) : financial_data[k].cells = <<>>

\* C21: given an empty dataset (an empty upload, or a file with no data
\* rows) the detector returns a result with num_anomalies = 0 and an empty
\* anomalies list, not an error.
C21_EmptyDatasetNoAnomalies ==
    (ScanDone /\ EmptyDataset) =>
        /\ http.status_code = 200
        /\ response.num_anomalies = 0
        /\ response.anomalies = <<>>

\* C30: an error raised inside the handler reaches the client with the
\* status it was raised with: an empty upload is answered with status 400
\* and detail "Empty file"; and on every path that created the temporary
\* file, success or processing error, the file is removed before the
\* response is returned.
C30_ErrorStatusPreserved ==
    ScanDone =>
        /\ content = "empty" => http = Reply(400, "Empty file")
        /\ temp_file \in {"none", "removed"}
        /\ content \in {"csv", "unparsable"} => temp_file = "removed"

----------------------------------------------------------------------------
(* The session maps of /chat and /upload_document *)

\* the history alternates user and assistant entries, the first a user entry
Alternates(history) ==
    \A i \in 1..Len(history) :
       history[i].role = IF i % 2 = 1 THEN "user" ELSE "assistant"

\* C28: after any sequence of /chat and /upload_document requests,
\* successful or failing, chat_sessions, session_history and
\* session_documents have exactly the same session ids, and every
\* session's history has even length and alternates user and assistant
\* entries.
C28_SessionMapsAligned ==
    /\ DOMAIN chat_sessions = DOMAIN session_history
    /\ DOMAIN session_history = DOMAIN session_documents
    /\ \A session_id \in DOMAIN session_history :
          /\ Len(session_history[session_id]) % 2 = 0
          /\ Alternates(session_history[session_id])

\* one session holds two pairs and a document, and a request has just
\* failed on another session, which it created and whose history is empty
C28_Witness ==
    /\ reply.status_code = 500
    /\ reply.session_id \in DOMAIN session_history
    /\ session_history[reply.session_id] = <<>>
    /\ \E other \in DOMAIN session_history :
          /\ Len(session_history[other]) = 4
          /\ session_documents[other] # <<>>

\* the step is the second half of an /upload_document request that is
\* answered with status 500
FailedUpload ==
    /\ upload # NoUpload
    /\ upload' = NoUpload
    /\ reply'.status_code = 500

\* C29: a failed /upload_document request leaves an existing session's
\* state unchanged: the session's stored documents and its history are the
\* same as before the request; and the saved upload file is deleted on the
\* success path and on the error path.
C29_FailedUploadLeavesSession ==
    [][/\ FailedUpload =>
             \A session_id \in DOMAIN chat_sessions :
                /\ session_documents'[session_id] = session_documents[session_id]
                /\ session_history'[session_id] = session_history[session_id]
       /\ (upload # NoUpload /\ upload' = NoUpload) => saved_file' = "deleted"]_vars

----------------------------------------------------------------------------
(* The reconstruction scan of anomaly.py and its persisted artifacts *)

\* the step is the return of a call of caller c that scored its rows
Scored(c) ==
    /\ callers[c].pc = "score"
    /\ callers'[c].pc = "idle"

\* the call that ended last returned, and the call of caller c has the same
\* frame, the same threshold_multiplier and the same model and scaler
SameInputs(c) ==
    /\ last.status = "ok"
    /\ last.rows = callers[c].rows
    /\ last.threshold_multiplier = callers[c].threshold_multiplier
    /\ last.model = callers[c].model
    /\ last.scaler = callers[c].scaler

\* C22: detect_anomalies_in_data is pure and deterministic: two calls with
\* the same dataset, the same threshold_multiplier and the same persisted
\* model and scaler return the same num_anomalies and the same flagged
\* rows, and the caller's dataset is left unchanged.
C22_ScanDeterministic ==
    [][\A c \in Callers :
          Scored(c) =>
             /\ SameInputs(c) => last'.anomalies = last.anomalies
             /\ callers'[c].columns = callers[c].columns]_vars

\* a caller is creating or writing an artifact
Initialising(c) ==
    callers[c].pc \in {"save_model", "write_model", "fit_scaler",
                       "dump_scaler", "write_scaler"}

\* C23: starting from no persisted artifacts, after any sequence of calls:
\* the first call has created the model file and the scaler file before it
\* scores a row, and every later call loads and reuses those artifacts and
\* never re-initialises or rewrites either of them.
C23_ArtifactsCreatedOnce ==
    /\ model_saves <= 1
    /\ scaler_dumps <= 1
    /\ \A c \in Callers :
          /\ (callers[c].call = 1 /\ callers[c].pc = "score") =>
                /\ model_file = File("complete", 1)
                /\ scaler_file = File("complete", 1)
          /\ callers[c].call > 1 =>
                /\ ~Initialising(c)
                /\ callers[c].pc = "score" =>
                      /\ callers[c].model = 1
                      /\ callers[c].scaler = 1

\* C24: when two or more first calls run concurrently while the artifacts
\* are absent, initialisation happens once: the model file and the scaler
\* file are each written by at most one caller, and no caller loads an
\* artifact that another caller is still writing.
C24_InitialisedOnce ==
    /\ model_saves <= 1
    /\ scaler_dumps <= 1
    /\ last.status # "corrupt"

\* C25: persistence is atomic: whenever no call is writing an artifact, as
\* after a crash, each path holds no file or a complete artifact, and no
\* call fails on a corrupt file.
C25_PersistenceAtomic ==
    /\ (\A c \in Callers : callers[c].pc \notin {"write_model", "write_scaler"}) =>
          /\ model_file.state \in {"absent", "complete"}
          /\ scaler_file.state \in {"absent", "complete"}
    /\ last.status # "corrupt"

====
